---- MODULE Spec2Model ----
(***************************************************************************)
(* Model of the custom-backend example: the event server (server.ts), the  *)
(* server-rendered variant of the same server kept in ui.ts, the           *)
(* single-page client (APP_HTML in ui.ts) that normalises the stored       *)
(* payloads for display, the projections both of them show, and the hook   *)
(* process (hook.ts) that posts the events.                                *)
(***************************************************************************)
EXTENDS Integers, Sequences, FiniteSets, TLC

VARIABLES
    server,     \* which server program is running: "server.ts" or "ui.ts"
    events,     \* the in-memory store, latest first
    req,        \* the request handled by the last step
    resp,       \* the response returned by the last step
    console,    \* the diagnostic line written by the last step
    inserted,   \* history: one entry per events.unshift, oldest first
    hookEvent,  \* client side: the hook event the example hook forwards
    context,    \* client side: the conversation context wrapped around it
    posted,     \* client side: the payload shapes already posted
    uiEvents,   \* the single-page client's this.events
    view,       \* the projections shown by the last rendering
    hook,       \* the process that runs hook.ts or UserPromptSubmit.ts
    pending     \* the requests whose handler waits for the request body

vars == <<server, events, req, resp, console, inserted,
          hookEvent, context, posted, uiEvents, view, hook, pending>>

(***************************************************************************)
(* Program constants                                                       *)
(***************************************************************************)
MAX_EVENTS == 50

API_KEY == "demo-key-12345"

SESSION_ID_PREFIX == 8

(***************************************************************************)
(* Bounds of the model                                                     *)
(***************************************************************************)
\* number of POST /events requests that reach events.unshift in one run
MaxPosts == 51

\* the same, in the runs that exercise every route
MaxStored == 2

\* number of leading insertions whose body is drawn from every body shape;
\* later insertions carry the plain numbered event
MaxVaried == 2

\* largest value of process.uptime() in whole seconds
MaxUptime == 1

\* number of clock readings a run of the client can see
MaxClock == 2

(***************************************************************************)
(* JavaScript values.  Every value is a record tagged with its type; an    *)
(* object is a record whose other fields are its own properties, so an     *)
(* absent property is a name outside DOMAIN.                               *)
(***************************************************************************)
Undefined == [t |-> "undefined"]

Null == [t |-> "null"]

Str(s) == [t |-> "string", s |-> s]

Num(n) == [t |-> "number", n |-> n]

Arr(items) == [t |-> "array", items |-> items]

EmptyObject == [t |-> "object"]

\* ToBoolean
Truthy(v) ==
    CASE v.t = "undefined" -> FALSE
      [] v.t = "null" -> FALSE
      [] v.t = "string" -> v.s # ""
      [] v.t = "number" -> v.n # 0
      [] OTHER -> TRUE

\* a || b
Or(a, b) == IF Truthy(a) THEN a ELSE b

\* v.f is a TypeError when v is null or undefined
Readable(v) == v.t \notin {"undefined", "null"}

\* v.f for a readable v
Get(v, f) == IF v.t = "object" /\ f \in DOMAIN v THEN v[f] ELSE Undefined

\* s.substring(0, n)
Substring(s, n) == SubSeq(s, 1, IF Len(s) < n THEN Len(s) ELSE n)

\* path.startsWith(prefix)
StartsWith(s, prefix) ==
    Len(s) >= Len(prefix) /\ SubSeq(s, 1, Len(prefix)) = prefix

\* path.includes(c) for a one-character c
Includes(s, c) == \E i \in 1..Len(s) : SubSeq(s, i, i) = c

\* Array.prototype.reverse on a copy
Reverse(s) == [i \in 1..Len(s) |-> s[Len(s) + 1 - i]]

(***************************************************************************)
(* HTTP requests.  A body is text: it is either the JSON text of a value   *)
(* or text that JSON.parse rejects (garbage, or nothing at all).           *)
(***************************************************************************)
JsonBody(v) == [syntax |-> "json", value |-> v]

GarbageBody == [syntax |-> "garbage"]

EmptyBody == [syntax |-> "empty"]

Request(method, pathname, apiKey, body) ==
    [method |-> method, pathname |-> pathname, apiKey |-> apiKey, body |-> body]

\* variant: a parser that yields an empty object for text it cannot read
ReqJsonLenient(body) ==
    [ok |-> TRUE,
     value |-> IF body.syntax = "json" THEN body.value ELSE EmptyObject]

\* await req.json(): the parsed value, or a SyntaxError
ReqJson(body) ==
    IF body.syntax = "json"
    THEN [ok |-> TRUE, value |-> body.value]
    ELSE [ok |-> FALSE, value |-> Undefined]

(***************************************************************************)
(* POST /events                                                            *)
(***************************************************************************)
\* const event = isPayloadStructure ? payload.event : payload
EventOf(payload) ==
    IF Get(payload, "event") # Undefined THEN Get(payload, "event") ELSE payload

\* the statements between the insertion and the response raise a TypeError
LoggingThrows(payload) ==
    IF ~Readable(payload) THEN TRUE
    ELSE LET event == EventOf(payload) IN
         IF ~Readable(event) THEN TRUE
         ELSE LET session_id == Get(event, "session_id") IN
              Truthy(session_id) /\ session_id.t # "string"

\* the diagnostic line of an event the logging statements accept
Diagnostic(payload) ==
    LET event == EventOf(payload)
        session_id == Get(event, "session_id")
    IN [eventName |-> Or(Get(event, "hook_event_name"), Str("unknown")),
        sessionName |-> Or(Get(event, "session_name"), Str("unnamed")),
        sessionId |-> IF Truthy(session_id)
                      THEN Str(Substring(session_id.s, SESSION_ID_PREFIX))
                      ELSE Str("unknown")]

NoLine == [eventName |-> Undefined, sessionName |-> Undefined,
           sessionId |-> Undefined]

Response401 ==
    [status |-> 401,
     headers |-> [ContentType |-> "application/json", XServerVersion |-> "1.0.0"],
     body |-> [success |-> FALSE, error |-> "Invalid API key"]]

Response400 ==
    [status |-> 400,
     headers |-> [ContentType |-> "application/json"],
     body |-> [success |-> FALSE, error |-> "Invalid JSON payload"]]

\* variant: the header is computed before the insertion
Response200Stale(length) ==
    [status |-> 200,
     headers |-> [ContentType |-> "application/json", XServerVersion |-> "1.0.0",
                  XEventsCount |-> ToString(length - 1)],
     body |-> [success |-> TRUE, message |-> "Event received",
               total_events |-> length]]

Response200(length) ==
    [status |-> 200,
     headers |-> [ContentType |-> "application/json", XServerVersion |-> "1.0.0",
                  XEventsCount |-> ToString(length)],
     body |-> [success |-> TRUE, message |-> "Event received",
               total_events |-> length]]

Response404 == [status |-> 404, headers |-> [ContentType |-> "text/plain"],
                body |-> [text |-> "Not Found"]]

\* the runtime's answer when a handler throws outside any try block
Response500 == [status |-> 500, headers |-> [ContentType |-> "text/plain"],
                body |-> [text |-> "Internal Server Error"]]

\* events.unshift(payload)
Unshift(store, payload) == <<payload>> \o store

\* variant: the tail is dropped as soon as the store reaches its capacity
KeepMaxEvictsEarly(store) ==
    IF Len(store) >= MAX_EVENTS THEN SubSeq(store, 1, Len(store) - 1) ELSE store

\* variant: the eviction is left out
KeepMaxNoPop(store) == store

\* if (events.length > MAX_EVENTS) events.pop()
KeepMax(store) ==
    IF Len(store) > MAX_EVENTS THEN SubSeq(store, 1, Len(store) - 1) ELSE store

Outcome(store, response, line, unshifted) ==
    [events |-> store, resp |-> response, console |-> line,
     unshifted |-> unshifted]

\* variant: the key is checked after the body has been read and inserted
PostEventsInsertFirst(store, request) ==
    LET parsed == ReqJson(request.body)
        kept == IF parsed.ok
                THEN KeepMax(Unshift(store, parsed.value)) ELSE store
        unshifted == IF parsed.ok THEN <<parsed.value>> ELSE <<>>
    IN IF request.apiKey # Str(API_KEY)
       THEN Outcome(kept, Response401, NoLine, unshifted)
       ELSE IF ~parsed.ok
       THEN Outcome(store, Response400, NoLine, <<>>)
       ELSE IF LoggingThrows(parsed.value)
       THEN Outcome(kept, Response400, NoLine, unshifted)
       ELSE Outcome(kept, Response200(Len(kept)),
                    Diagnostic(parsed.value), unshifted)

PostEvents(store, request) ==
    IF request.apiKey # Str(API_KEY)
    THEN Outcome(store, Response401, NoLine, <<>>)
    ELSE LET parsed == ReqJson(request.body) IN
         IF ~parsed.ok
         THEN Outcome(store, Response400, NoLine, <<>>)
         ELSE LET payload == parsed.value
                  kept == KeepMax(Unshift(store, payload))
              IN IF LoggingThrows(payload)
                 THEN Outcome(kept, Response400, NoLine, <<payload>>)
                 ELSE Outcome(kept, Response200(Len(kept)),
                              Diagnostic(payload), <<payload>>)

(***************************************************************************)
(* GET routes of server.ts                                                 *)
(***************************************************************************)
\* variant: the list is sent oldest first
ApiEventsResponseReversed(store) ==
    [status |-> 200,
     headers |-> [ContentType |-> "application/json"],
     body |-> [events |-> Reverse(store)]]

\* JSON.stringify({ events })
ApiEventsResponse(store) ==
    [status |-> 200,
     headers |-> [ContentType |-> "application/json"],
     body |-> [events |-> store]]

\* the application shell, APP_HTML
AppShellResponse ==
    [status |-> 200,
     headers |-> [ContentType |-> "text/html", XServerVersion |-> "2.0.0"],
     body |-> [page |-> "APP_HTML"]]

HealthResponse(store, uptime) ==
    [status |-> 200,
     headers |-> [ContentType |-> "application/json", XServerVersion |-> "1.0.0"],
     body |-> [status |-> "healthy", events_count |-> Len(store),
               uptime_seconds |-> uptime]]

\* url.pathname === '/' || !startsWith('/api/') && !includes('.')
IsAppShellPath(pathname) ==
    \/ pathname = "/"
    \/ ~StartsWith(pathname, "/api/") /\ ~Includes(pathname, ".")

\* the fetch handler of server.ts
ServerFetch(store, request, uptime) ==
    IF request.method = "POST" /\ request.pathname = "/events"
    THEN PostEvents(store, request)
    ELSE IF request.method = "GET" /\ request.pathname = "/api/events"
    THEN Outcome(store, ApiEventsResponse(store), NoLine, <<>>)
    ELSE IF request.method = "GET" /\ IsAppShellPath(request.pathname)
    THEN Outcome(store, AppShellResponse, NoLine, <<>>)
    ELSE IF request.method = "GET" /\ request.pathname = "/health"
    THEN Outcome(store, HealthResponse(store, uptime), NoLine, <<>>)
    ELSE Outcome(store, Response404, NoLine, <<>>)

(***************************************************************************)
(* GET routes of the server-rendered variant (ui.ts).  Each page function  *)
(* yields the store as the function leaves it and whether it threw; the    *)
(* rendered text is summarised by the page's name and the event count the  *)
(* page embeds in its polling script.                                      *)
(***************************************************************************)
\* a property that the page treats as a string holds something else
NotAString(v) == Truthy(v) /\ v.t # "string"

\* generateEventCard(payload) raises a TypeError
CardThrows(payload) ==
    IF ~Readable(payload) THEN TRUE
    ELSE LET event == EventOf(payload) IN
         IF ~Readable(event) THEN TRUE
         ELSE \/ NotAString(Get(event, "hook_event_name"))
              \/ NotAString(Get(event, "session_name"))
              \/ NotAString(Get(event, "session_id"))

PageResult(store, threw, name) ==
    [events |-> store, threw |-> threw,
     page |-> [page |-> name, lastEventCount |-> Len(store)]]

generateHtmlPage(store) ==
    PageResult(store,
               \E i \in 1..Len(store) :
                   ~Readable(store[i]) \/ CardThrows(store[i]),
               "events")

generateChatPage(store) ==
    PageResult(store,
               \E i \in 1..Len(store) :
                   \/ ~Readable(store[i])
                   \/ ~Readable(EventOf(store[i]))
                   \/ /\ Get(EventOf(store[i]), "hook_event_name")
                            = Str("UserPromptSubmit")
                      /\ NotAString(Get(EventOf(store[i]), "prompt")),
               "chat")

generateFileChangesPage(store) ==
    PageResult(store,
               \E i \in 1..Len(store) :
                   ~Readable(store[i]) \/ ~Readable(EventOf(store[i])),
               "file-changes")

generateTransactionsPage(store) ==
    PageResult(store,
               \E i \in 1..Len(store) : CardThrows(store[i]),
               "transactions")

generateContextUsagePage(store) ==
    PageResult(store,
               \E i \in 1..Len(store) :
                   ~Readable(store[i]) \/ ~Readable(EventOf(store[i])),
               "context-usage")

PageResponse(result) ==
    IF result.threw
    THEN Response500
    ELSE [status |-> 200,
          headers |-> [ContentType |-> "text/html", XServerVersion |-> "1.0.0"],
          body |-> result.page]

PageOutcome(result) ==
    Outcome(result.events, PageResponse(result), NoLine, <<>>)

\* the fetch handler of the server-rendered variant
RenderedFetch(store, request, uptime) ==
    IF request.method = "POST" /\ request.pathname = "/events"
    THEN PostEvents(store, request)
    ELSE IF request.method = "GET" /\ request.pathname = "/"
    THEN PageOutcome(generateHtmlPage(store))
    ELSE IF request.method = "GET" /\ request.pathname = "/health"
    THEN Outcome(store, HealthResponse(store, uptime), NoLine, <<>>)
    ELSE IF request.method = "GET" /\ request.pathname = "/chat"
    THEN PageOutcome(generateChatPage(store))
    ELSE IF request.method = "GET" /\ request.pathname = "/file-changes"
    THEN PageOutcome(generateFileChangesPage(store))
    ELSE IF request.method = "GET" /\ request.pathname = "/transactions"
    THEN PageOutcome(generateTransactionsPage(store))
    ELSE IF request.method = "GET" /\ request.pathname = "/context-usage"
    THEN PageOutcome(generateContextUsagePage(store))
    ELSE Outcome(store, Response404, NoLine, <<>>)

Fetch(program, store, request, uptime) ==
    IF program = "server.ts"
    THEN ServerFetch(store, request, uptime)
    ELSE RenderedFetch(store, request, uptime)

(***************************************************************************)
(* The requests sent to the server                                         *)
(***************************************************************************)
\* a property that is left out when its value is undefined
Opt(name, v) ==
    IF v = Undefined THEN EmptyObject ELSE (name :> v) @@ EmptyObject

\* the n-th event of a run: a flat prompt-submit event numbered n
NumberedEvent(n) ==
    [t |-> "object",
     hook_event_name |-> Str("UserPromptSubmit"),
     session_id |-> Str("abc123"),
     timestamp |-> Str("2025-01-01T00:00:00.000Z"),
     prompt |-> Str("hello"),
     seq |-> Num(n)]

\* { event: E, timestamp: E.timestamp, ...context }
Wrap(E, ctx) ==
    ctx @@ Opt("timestamp", Get(E, "timestamp")) @@ [t |-> "object", event |-> E]

NoContext == EmptyObject

HookContext ==
    [t |-> "object", conversation |-> Null, recentConversation |-> Arr(<<>>)]

\* the JSON values a body can denote besides the plain numbered event
VariedValues(n) ==
    { Null,
      Num(5),
      EmptyObject,
      [t |-> "object", event |-> Null],
      [NumberedEvent(n) EXCEPT !.session_id = Num(7)],
      Wrap([NumberedEvent(n) EXCEPT !.session_id = Str("0123456789abcdef")],
           HookContext) }

ApiKeys == {Null, Str("wrong-key"), Str(API_KEY)}

Paths == {"/", "/events", "/api/events", "/api/other", "/health", "/chat",
          "/file-changes", "/transactions", "/context-usage", "/favicon.ico"}

Programs == {"server.ts", "ui.ts"}

NoRequest == Request("", "", Null, EmptyBody)

NoResponse == [status |-> 0, headers |-> [ContentType |-> ""],
               body |-> [text |-> ""]]

\* the request is one whose handler reaches events.unshift
Inserts(request) ==
    /\ request.method = "POST"
    /\ request.pathname = "/events"
    /\ request.apiKey = Str(API_KEY)
    /\ request.body.syntax = "json"

\* one request handled to completion by the running server
ServerStep(request, uptime) ==
    LET out == Fetch(server, events, request, uptime) IN
    /\ events' = out.events
    /\ resp' = out.resp
    /\ console' = out.console
    /\ req' = request
    /\ inserted' = IF out.unshifted = <<>>
                   THEN inserted
                   ELSE Append(inserted, [payload |-> out.unshifted[1],
                                          status |-> out.resp.status,
                                          line |-> out.console])
    /\ UNCHANGED server

Handle(request, uptime) ==
    /\ ServerStep(request, uptime)
    /\ UNCHANGED <<hookEvent, context, posted, uiEvents, view, hook, pending>>

PostRequest(apiKey, body) == Request("POST", "/events", apiKey, body)

GetRequest(pathname) == Request("GET", pathname, Null, EmptyBody)

\* nothing has been rendered yet
NoView == [kind |-> "none"]

\* no hook process is running
NoHook == [pc |-> "none"]

Fresh(program) ==
    /\ server = program
    /\ events = <<>>
    /\ req = NoRequest
    /\ resp = NoResponse
    /\ console = NoLine
    /\ inserted = <<>>
    /\ hookEvent = Undefined
    /\ context = NoContext
    /\ posted = {}
    /\ uiEvents = <<>>
    /\ view = NoView
    /\ pending = <<>>
    /\ hook = NoHook

(***************************************************************************)
(* Spec: server.ts filled up to and beyond its capacity.                   *)
(***************************************************************************)
\* POST /events with the configured key and a body that parses
StorePost ==
    /\ Len(inserted) < MaxPosts
    /\ \E value \in {NumberedEvent(Len(inserted) + 1)}
                    \cup (IF Len(inserted) < MaxVaried
                          THEN VariedValues(Len(inserted) + 1) ELSE {}) :
          Handle(PostRequest(Str(API_KEY), JsonBody(value)), 0)

\* POST /events with a wrong key, or with a body that is not JSON
StoreReject ==
    \E r \in {PostRequest(Str("wrong-key"),
                          JsonBody(NumberedEvent(Len(inserted) + 1))),
              PostRequest(Str(API_KEY), GarbageBody)} :
        Handle(r, 0)

\* the reads the single-page client and a monitor make
StoreRead ==
    \E pathname \in {"/api/events", "/health"} :
        Handle(GetRequest(pathname), 0)

Init == Fresh("server.ts")

Next == StorePost \/ StoreReject \/ StoreRead

Spec == Init /\ [][Next]_vars

(***************************************************************************)
(* SpecRoutes: every route of both server programs, on a store of a few    *)
(* records of every shape.                                                 *)
(***************************************************************************)
RoutePost ==
    /\ Len(inserted) < MaxStored
    /\ \E value \in {NumberedEvent(Len(inserted) + 1)}
                    \cup VariedValues(Len(inserted) + 1) :
          Handle(PostRequest(Str(API_KEY), JsonBody(value)), 0)

\* POST /events with a missing or wrong key, or with a body that is not JSON
RouteReject ==
    \E apiKey \in ApiKeys :
      \E body \in {GarbageBody, EmptyBody, JsonBody(Null),
                   JsonBody(NumberedEvent(Len(inserted) + 1))} :
        /\ ~Inserts(PostRequest(apiKey, body))
        /\ Handle(PostRequest(apiKey, body), 0)

\* GET of any path
RouteGet ==
    \E pathname \in Paths : \E uptime \in 0..MaxUptime :
        /\ uptime > 0 => pathname = "/health"
        /\ Handle(GetRequest(pathname), uptime)

\* a method and path no route matches
RouteOther ==
    \E r \in {Request("POST", "/health", Str(API_KEY), EmptyBody),
              Request("DELETE", "/events", Str(API_KEY), EmptyBody)} :
        Handle(r, 0)

InitRoutes == \E program \in Programs : Fresh(program)

NextRoutes == RoutePost \/ RouteReject \/ RouteGet \/ RouteOther

SpecRoutes == InitRoutes /\ [][NextRoutes]_vars

(***************************************************************************)
(* The single-page client (APP_HTML) and the hook that feeds the server    *)
(***************************************************************************)
\* v?.f
OptGet(v, f) == IF Readable(v) THEN Get(v, f) ELSE Undefined

\* new Date().toISOString() at the n-th tick of the clock
ToISOString(n) == "2025-06-01T00:00:0" \o ToString(n) \o ".000Z"

\* the callback of data.events.map raises a TypeError on this record
NormalizeThrows(raw) ==
    IF ~Readable(raw) THEN TRUE
    ELSE LET event == EventOf(raw) IN
         IF ~Readable(event) THEN TRUE
         ELSE NotAString(Get(event, "session_id"))

\* variant: the wrapper is not looked into
NormalizeFlatOnly(raw, now) ==
    [type |-> Or(Get(raw, "hook_event_name"), Str("Unknown")),
     timestamp |-> Or(Get(raw, "timestamp"), Str(ToISOString(now))),
     sessionId |-> Str(Substring(Or(Get(raw, "session_id"), Str("")).s,
                                 SESSION_ID_PREFIX)),
     sessionName |-> Or(Get(raw, "session_name"), Str("Unknown")),
     details |-> [message |-> Or(Get(raw, "prompt"), Null),
                  tool |-> Or(Get(raw, "tool_name"), Null),
                  path |-> Or(Or(Or(OptGet(Get(raw, "tool_input"), "file_path"),
                                    OptGet(Get(raw, "tool_input"), "path")),
                                 Get(raw, "cwd")),
                              Null)],
     raw |-> raw]

\* the callback of data.events.map in fetchEvents
Normalize(raw, now) ==
    LET isPayload == Get(raw, "event") # Undefined
        event == IF isPayload THEN Get(raw, "event") ELSE raw
        timestamp == IF isPayload THEN Get(raw, "timestamp")
                     ELSE Get(event, "timestamp")
    IN [type |-> Or(Get(event, "hook_event_name"), Str("Unknown")),
        timestamp |-> Or(timestamp, Str(ToISOString(now))),
        sessionId |-> Str(Substring(Or(Get(event, "session_id"), Str("")).s,
                                    SESSION_ID_PREFIX)),
        sessionName |-> Or(Get(event, "session_name"), Str("Unknown")),
        details |-> [message |-> Or(Get(event, "prompt"), Null),
                     tool |-> Or(Get(event, "tool_name"), Null),
                     path |-> Or(Or(Or(OptGet(Get(event, "tool_input"),
                                              "file_path"),
                                       OptGet(Get(event, "tool_input"), "path")),
                                    Get(event, "cwd")),
                                 Null)],
        raw |-> raw]

\* this.events after fetchEvents has read `response` at clock reading `now`
FetchedEvents(current, response, now) ==
    IF response.status \notin 200..299
    THEN current
    ELSE LET data == response.body.events IN
         IF \E i \in 1..Len(data) : NormalizeThrows(data[i])
         THEN current
         ELSE [i \in 1..Len(data) |-> Normalize(data[i], now)]

(***************************************************************************)
(* The chat projection: chatMessages of the single-page client and the     *)
(* messages generateChatPage renders.  A message is a record of its role,  *)
(* content and timestamp (and thinking, for an assistant).                 *)
(***************************************************************************)
\* length of the content prefix in chatMessages' hash
SPA_HASH_PREFIX == 50

\* length of the content prefix in generateChatPage's msgHash
PAGE_HASH_PREFIX == 100

\* the strings of the `kind` blocks of an assistant message, in order
BlocksOf(blocks, kind) ==
    LET picked == SelectSeq(blocks, LAMBDA b : Get(b, "type") = Str(kind))
    IN [i \in 1..Len(picked) |-> Get(picked[i], kind).s]

\* content += block.text + '\n' over the strings
RECURSIVE Accumulate(_)
Accumulate(strings) ==
    IF strings = <<>> THEN ""
    ELSE Head(strings) \o "\n" \o Accumulate(Tail(strings))

\* strings.join('\n\n')
RECURSIVE Join(_)
Join(strings) ==
    IF strings = <<>> THEN ""
    ELSE IF Len(strings) = 1 THEN Head(strings)
    ELSE Head(strings) \o "\n\n" \o Join(Tail(strings))

\* Array.isArray(v) ? v : []
ItemsOf(v) == IF v.t = "array" THEN v.items ELSE <<>>

NoMessages == [seen |-> {}, messages |-> <<>>]

\* if (!seen.has(hash)) { seen.add(hash); messages.push(message) }
PushUnseen(acc, hash, message) ==
    IF hash \in acc.seen THEN acc
    ELSE [seen |-> acc.seen \cup {hash},
          messages |-> Append(acc.messages, message)]

\* chatMessages: the user prompt of one record
SpaPrompt(acc, e) ==
    LET prompt == OptGet(OptGet(e.raw, "event"), "prompt") IN
    IF e.type = Str("UserPromptSubmit") /\ Truthy(prompt)
    THEN PushUnseen(acc, "user:" \o Substring(prompt.s, SPA_HASH_PREFIX),
                    [role |-> "user", content |-> prompt.s,
                     timestamp |-> e.timestamp])
    ELSE acc

\* chatMessages: one line of a record's recentConversation
SpaLine(acc, e, msg) ==
    IF Get(msg, "type") # Str("assistant") THEN acc
    ELSE LET blocks == ItemsOf(Get(Get(msg, "message"), "content"))
             content == Accumulate(BlocksOf(blocks, "text"))
             thinking == Accumulate(BlocksOf(blocks, "thinking"))
         IN IF content = "" /\ thinking = "" THEN acc
            ELSE PushUnseen(acc,
                            "asst:" \o Substring(content, SPA_HASH_PREFIX),
                            [role |-> "assistant", content |-> content,
                             thinking |-> thinking,
                             timestamp |-> Or(Get(msg, "timestamp"),
                                              e.timestamp)])

RECURSIVE SpaLines(_, _, _)
SpaLines(acc, e, lines) ==
    IF lines = <<>> THEN acc
    ELSE SpaLines(SpaLine(acc, e, Head(lines)), e, Tail(lines))

\* the callback of cronEvents.forEach
SpaRecord(acc, e) ==
    LET recent == Get(e.raw, "recentConversation") IN
    SpaLines(SpaPrompt(acc, e), e,
             IF Truthy(recent) THEN ItemsOf(recent) ELSE <<>>)

RECURSIVE SpaRecords(_, _)
SpaRecords(acc, cronEvents) ==
    IF cronEvents = <<>> THEN acc
    ELSE SpaRecords(SpaRecord(acc, Head(cronEvents)), Tail(cronEvents))

\* variant: the messages are returned in the order they were collected
chatMessagesOldestFirst(thisEvents) ==
    SpaRecords(NoMessages, Reverse(thisEvents)).messages

\* get chatMessages()
chatMessages(thisEvents) ==
    Reverse(SpaRecords(NoMessages, Reverse(thisEvents)).messages)

\* generateChatPage: the user prompt of one payload
PagePrompt(acc, event, payloadTimestamp) ==
    LET prompt == Get(event, "prompt") IN
    IF Get(event, "hook_event_name") = Str("UserPromptSubmit") /\ Truthy(prompt)
    THEN PushUnseen(acc, "user:" \o Substring(prompt.s, PAGE_HASH_PREFIX),
                    [role |-> "user", content |-> prompt.s,
                     timestamp |-> payloadTimestamp])
    ELSE acc

\* variant: every line is keyed as a user message
PageLineOneRole(acc, line, payloadTimestamp) ==
    IF ~Truthy(line) \/ ~Truthy(Get(line, "message")) THEN acc
    ELSE LET msg == Get(line, "message")
             content == Get(msg, "content")
             stamp == Or(Get(line, "timestamp"), payloadTimestamp)
         IN IF Get(line, "type") = Str("user") /\ content.t = "string"
            THEN PushUnseen(acc,
                            "user:" \o Substring(content.s, PAGE_HASH_PREFIX),
                            [role |-> "user", content |-> content.s,
                             timestamp |-> stamp])
            ELSE IF Get(line, "type") = Str("assistant") /\ content.t = "array"
            THEN LET textContent == Join(BlocksOf(content.items, "text"))
                     thinkingContent ==
                         Join(BlocksOf(content.items, "thinking"))
                 IN IF textContent = "" /\ thinkingContent = "" THEN acc
                    ELSE PushUnseen(acc,
                                    "user:" \o Substring(textContent,
                                                         PAGE_HASH_PREFIX),
                                    [role |-> "assistant",
                                     content |-> textContent,
                                     thinking |-> thinkingContent,
                                     timestamp |-> stamp])
            ELSE acc

\* generateChatPage: one line of a payload's recentConversation
PageLine(acc, line, payloadTimestamp) ==
    IF ~Truthy(line) \/ ~Truthy(Get(line, "message")) THEN acc
    ELSE LET msg == Get(line, "message")
             content == Get(msg, "content")
             stamp == Or(Get(line, "timestamp"), payloadTimestamp)
         IN IF Get(line, "type") = Str("user") /\ content.t = "string"
            THEN PushUnseen(acc,
                            "user:" \o Substring(content.s, PAGE_HASH_PREFIX),
                            [role |-> "user", content |-> content.s,
                             timestamp |-> stamp])
            ELSE IF Get(line, "type") = Str("assistant") /\ content.t = "array"
            THEN LET textContent == Join(BlocksOf(content.items, "text"))
                     thinkingContent ==
                         Join(BlocksOf(content.items, "thinking"))
                 IN IF textContent = "" /\ thinkingContent = "" THEN acc
                    ELSE PushUnseen(acc,
                                    "assistant:" \o Substring(textContent,
                                                              PAGE_HASH_PREFIX),
                                    [role |-> "assistant",
                                     content |-> textContent,
                                     thinking |-> thinkingContent,
                                     timestamp |-> stamp])
            ELSE acc

RECURSIVE PageLines(_, _, _)
PageLines(acc, lines, payloadTimestamp) ==
    IF lines = <<>> THEN acc
    ELSE PageLines(PageLine(acc, Head(lines), payloadTimestamp),
                   Tail(lines), payloadTimestamp)

\* the body of `for (const payload of events)`; `now` is the clock reading
\* of new Date() in it
PagePayload(acc, payload, now) ==
    LET isPayloadStructure == Get(payload, "event") # Undefined
        event == IF isPayloadStructure THEN Get(payload, "event") ELSE payload
        recentConv == IF isPayloadStructure
                      THEN Get(payload, "recentConversation") ELSE Null
        payloadTimestamp == IF isPayloadStructure
                            THEN Get(payload, "timestamp")
                            ELSE Str(ToISOString(now))
    IN PageLines(PagePrompt(acc, event, payloadTimestamp),
                 ItemsOf(recentConv), payloadTimestamp)

RECURSIVE PagePayloads(_, _, _)
PagePayloads(acc, store, now) ==
    IF store = <<>> THEN acc
    ELSE PagePayloads(PagePayload(acc, Head(store), now), Tail(store), now)

\* new Date(timestamp) is a date, not an Invalid Date
IsDate(timestamp) ==
    /\ timestamp.t = "string"
    /\ \/ \E n \in 0..9 : timestamp.s = ToISOString(n)
       \/ timestamp.s = "2025-01-01T00:00:00.000Z"

\* new Date(timestamp).getTime() of a date, in seconds from
\* 2025-06-01T00:00:00Z; the first of January is 151 days earlier
DateTime(timestamp) ==
    IF timestamp.s = "2025-01-01T00:00:00.000Z" THEN 0 - 151 * 86400
    ELSE CHOOSE n \in 0..9 : timestamp.s = ToISOString(n)

\* the comparator of allMessages.sort puts a behind b; the difference of
\* an Invalid Date is NaN, which sort takes for zero
SortsAfter(a, b) ==
    /\ IsDate(a.timestamp)
    /\ IsDate(b.timestamp)
    /\ DateTime(a.timestamp) - DateTime(b.timestamp) > 0

\* Array.prototype.sort is stable: m goes behind the messages it does not
\* sort before
RECURSIVE InsertSorted(_, _)
InsertSorted(sorted, m) ==
    IF sorted = <<>> THEN <<m>>
    ELSE IF SortsAfter(sorted[Len(sorted)], m)
    THEN Append(InsertSorted(SubSeq(sorted, 1, Len(sorted) - 1), m),
                sorted[Len(sorted)])
    ELSE Append(sorted, m)

RECURSIVE SortByTime(_)
SortByTime(messages) ==
    IF messages = <<>> THEN <<>>
    ELSE InsertSorted(SortByTime(SubSeq(messages, 1, Len(messages) - 1)),
                      messages[Len(messages)])

\* allMessages as generateChatPage renders them at clock reading `now`
ChatPageMessages(store, now) ==
    SortByTime(PagePayloads(NoMessages, store, now).messages)

(***************************************************************************)
(* The file-operation projection and the aggregate counts                  *)
(***************************************************************************)
FileTools == {Str("Read"), Str("Write"), Str("Edit"), Str("Glob"), Str("Grep")}

\* variant: every tool invocation is listed, whatever the tool
fileOperationsAnyTool(thisEvents) ==
    LET kept == SelectSeq(thisEvents, LAMBDA e : e.type = Str("PostToolUse"))
    IN [i \in 1..Len(kept) |->
          [type |-> kept[i].details.tool,
           path |-> kept[i].details.path,
           timestamp |-> kept[i].timestamp,
           details |-> Or(OptGet(Get(kept[i].raw, "event"), "tool_input"),
                          EmptyObject)]]

\* get fileOperations()
fileOperations(thisEvents) ==
    LET kept == SelectSeq(thisEvents,
                          LAMBDA e : /\ e.type = Str("PostToolUse")
                                     /\ e.details.tool \in FileTools)
    IN [i \in 1..Len(kept) |->
          [type |-> kept[i].details.tool,
           path |-> kept[i].details.path,
           timestamp |-> kept[i].timestamp,
           details |-> Or(OptGet(Get(kept[i].raw, "event"), "tool_input"),
                          EmptyObject)]]

\* the callback of events.map in generateFileChangesPage passes the payload
IsFileOp(payload) ==
    /\ Get(EventOf(payload), "hook_event_name") = Str("PostToolUse")
    /\ Get(EventOf(payload), "tool_name") \in FileTools

\* the entry that callback returns for a payload it passes
FileOp(payload, now) ==
    LET isPayloadStructure == Get(payload, "event") # Undefined
        event == IF isPayloadStructure THEN Get(payload, "event") ELSE payload
        payloadTimestamp == IF isPayloadStructure
                            THEN Get(payload, "timestamp") ELSE Null
        toolInput == Or(Get(event, "tool_input"), EmptyObject)
    IN [toolName |-> Get(event, "tool_name"),
        filePath |-> Or(Or(Or(Get(toolInput, "file_path"),
                              Get(toolInput, "path")),
                           Get(toolInput, "pattern")),
                        Str("N/A")),
        timestamp |-> Or(Or(payloadTimestamp, Get(event, "timestamp")),
                         Str(ToISOString(now))),
        details |-> toolInput]

\* fileOps of generateFileChangesPage: map, filter(Boolean), reverse
FileChangesOps(store, now) ==
    LET kept == SelectSeq(store, IsFileOp)
    IN Reverse([i \in 1..Len(kept) |-> FileOp(kept[i], now)])

\* the records of the client that are tool invocations
ToolUses(thisEvents) ==
    SelectSeq(thisEvents, LAMBDA e : e.type = Str("PostToolUse"))

\* variant: every tool invocation counts as a modification
statsEveryToolModifies(thisEvents) ==
    [totalEvents |-> Len(thisEvents),
     toolUses |-> Len(ToolUses(thisEvents)),
     filesModified |-> Len(ToolUses(thisEvents)),
     sessions |-> Cardinality({thisEvents[i].sessionId :
                                 i \in {j \in 1..Len(thisEvents) :
                                          Truthy(thisEvents[j].sessionId)}})]

\* get stats()
stats(thisEvents) ==
    [totalEvents |-> Len(thisEvents),
     toolUses |-> Len(ToolUses(thisEvents)),
     filesModified |->
         Len(SelectSeq(ToolUses(thisEvents),
                       LAMBDA e : e.details.tool
                                    \in {Str("Write"), Str("Edit")})),
     sessions |-> Cardinality({thisEvents[i].sessionId :
                                 i \in {j \in 1..Len(thisEvents) :
                                          Truthy(thisEvents[j].sessionId)}})]

\* eventType === 'PostToolUse' for the payload
IsPostToolUse(payload) ==
    Or(Get(EventOf(payload), "hook_event_name"), Str("unknown"))
      = Str("PostToolUse")

\* the payload is a PostToolUse event of tool `name`
IsToolUse(payload, name) ==
    /\ IsPostToolUse(payload)
    /\ Get(EventOf(payload), "tool_name") = Str(name)

\* usageStats of generateContextUsagePage: the counts over the store
UsageStats(store) ==
    [totalEvents |-> Len(store),
     toolUses |-> Len(SelectSeq(store, IsPostToolUse)),
     reads |-> Len(SelectSeq(store, LAMBDA p : IsToolUse(p, "Read"))),
     writes |-> Len(SelectSeq(store, LAMBDA p : IsToolUse(p, "Write"))),
     edits |-> Len(SelectSeq(store, LAMBDA p : IsToolUse(p, "Edit"))),
     sessionsTracked |->
         Cardinality({Get(EventOf(store[i]), "session_id") :
                        i \in {j \in 1..Len(store) :
                                 Truthy(Get(EventOf(store[j]),
                                            "session_id"))}})]

\* the header counts of generateHtmlPage
HeaderStats(store) ==
    [events |-> Len(store),
     sessions |-> Cardinality({Get(store[i], "session_id") :
                                 i \in 1..Len(store)})]

\* what the single-page client shows of this.events
SpaView(thisEvents) ==
    [kind |-> "spa",
     chatMessages |-> chatMessages(thisEvents),
     fileOperations |-> fileOperations(thisEvents),
     stats |-> stats(thisEvents)]

\* the tool part of a hook event: the tool's name and its input
ToolParts ==
    { EmptyObject,
      [t |-> "object", tool_name |-> Str("Write"),
       tool_input |-> [t |-> "object", file_path |-> Str("/work/a.ts")]],
      [t |-> "object", tool_name |-> Str("Read"),
       tool_input |-> [t |-> "object", path |-> Str("/work/src")]],
      [t |-> "object", tool_name |-> Str("Grep"),
       tool_input |-> [t |-> "object", pattern |-> Str("TODO")]] }

\* the hook events the host hands to a hook
HookEvents ==
    { Opt("hook_event_name", name) @@ Opt("session_id", sid)
        @@ Opt("session_name", sname) @@ Opt("timestamp", ts)
        @@ Opt("prompt", prompt) @@ Opt("cwd", cwd) @@ tool :
        name \in {Undefined, Str("UserPromptSubmit"), Str("PostToolUse")},
        sid \in {Undefined, Str("abc123"), Str("0123456789abcdef")},
        sname \in {Undefined, Str("mutual-lion")},
        ts \in {Undefined, Str("2025-01-01T00:00:00.000Z")},
        prompt \in {Undefined, Str("hello")},
        cwd \in {Undefined, Str("/work")},
        tool \in ToolParts }

Contexts == {NoContext, HookContext}

\* the payload of each shape for the event at hand
Shaped(shape) ==
    IF shape = "flat" THEN hookEvent ELSE Wrap(hookEvent, context)

\* the event is posted to the server in one of the two shapes
HookPost ==
    \E shape \in {"flat", "wrapped"} \ posted :
        /\ ServerStep(PostRequest(Str(API_KEY), JsonBody(Shaped(shape))), 0)
        /\ posted' = posted \cup {shape}
        /\ UNCHANGED <<hookEvent, context, uiEvents, view, hook, pending>>

\* one run of the client's fetchEvents.  The map over data.events is one
\* synchronous run, so the records without a timestamp of their own all
\* get the clock reading of that run.  The page then shows the getters
\* evaluated on the new this.events.
SpaFetchEvents ==
    \E now \in 1..MaxClock :
        /\ ServerStep(GetRequest("/api/events"), 0)
        /\ uiEvents' = FetchedEvents(uiEvents, resp', now)
        /\ view' = SpaView(uiEvents')
        /\ UNCHANGED <<hookEvent, context, posted, hook, pending>>

InitSpa ==
    /\ server = "server.ts"
    /\ events = <<>>
    /\ req = NoRequest
    /\ resp = NoResponse
    /\ console = NoLine
    /\ inserted = <<>>
    /\ hookEvent \in HookEvents
    /\ context \in Contexts
    /\ posted = {}
    /\ uiEvents = <<>>
    /\ view = NoView
    /\ pending = <<>>
    /\ hook = NoHook

NextSpa == HookPost \/ SpaFetchEvents

SpecSpa == InitSpa /\ [][NextSpa]_vars

(***************************************************************************)
(* SpecViews: both server programs hold a few records of hook payloads,    *)
(* flat and wrapped, and their projections are rendered: the pages of the  *)
(* server-rendered variant, and the getters of the single-page client      *)
(* after it has fetched the list from server.ts.                           *)
(***************************************************************************)
\* number of records posted in one run
MaxView == 2

\* fifty characters that two prompts, and two answers, have in common
CommonPrefix == "0123456789012345678901234567890123456789012345678-"

\* two session identifiers that agree on their first eight characters
SessionA == "0123456789abcdef"

SessionB == "01234567ffffffff"

\* an event of the host at clock reading n
HostEvent(name, sid, n) ==
    [t |-> "object", hook_event_name |-> Str(name), session_id |-> Str(sid),
     timestamp |-> Str(ToISOString(n))]

PromptEvent(prompt, sid, n) ==
    (("prompt" :> Str(prompt)) @@ HostEvent("UserPromptSubmit", sid, n))

ToolEvent(tool, input, sid, n) ==
    (("tool_name" :> Str(tool)) @@ ("tool_input" :> input)
       @@ ("cwd" :> Str("/work")) @@ HostEvent("PostToolUse", sid, n))

\* the events the host raises at clock reading n
ViewEvents(n) ==
    { PromptEvent(CommonPrefix \o "first", SessionA, n),
      PromptEvent(CommonPrefix \o "second", SessionB, n),
      PromptEvent("hello", "abc123", n),
      ToolEvent("Write", [t |-> "object", file_path |-> Str("/work/a.ts")],
                SessionA, n),
      ToolEvent("Grep", [t |-> "object", pattern |-> Str("TODO")],
                SessionB, n),
      ToolEvent("Glob", EmptyObject, SessionB, n),
      ToolEvent("Bash", [t |-> "object", command |-> Str("ls")],
                "abc123", n) }

\* a line of the transcript
TextBlock(text) == [t |-> "object", type |-> Str("text"), text |-> Str(text)]

ThinkingBlock(text) ==
    [t |-> "object", type |-> Str("thinking"), thinking |-> Str(text)]

UserLine(content, stamp) ==
    stamp @@ [t |-> "object", type |-> Str("user"),
              message |-> [t |-> "object", role |-> Str("user"),
                           content |-> Str(content)]]

AssistantLine(blocks, stamp) ==
    stamp @@ [t |-> "object", type |-> Str("assistant"),
              message |-> [t |-> "object", role |-> Str("assistant"),
                           content |-> Arr(blocks)]]

\* the conversation contexts the hook takes from a transcript: the last
\* line and the recent lines, which overlap from one run of the hook to
\* the next
TranscriptContexts ==
    LET stamp == Opt("timestamp", Str(ToISOString(0)))
        asked == UserLine("hello", stamp)
        answered == AssistantLine(<<ThinkingBlock("hm"),
                                    TextBlock(CommonPrefix \o "yes")>>, stamp)
        added == AssistantLine(<<TextBlock(CommonPrefix \o "no"),
                                 TextBlock("really")>>, EmptyObject)
        echoed == AssistantLine(<<TextBlock("hello")>>, stamp)
        pondered == AssistantLine(<<ThinkingBlock("one")>>, stamp)
        reconsidered == AssistantLine(<<ThinkingBlock("two")>>, stamp)
    IN { [t |-> "object", conversation |-> answered,
          recentConversation |-> Arr(<<asked, answered>>)],
         [t |-> "object", conversation |-> added,
          recentConversation |-> Arr(<<answered, added>>)],
         [t |-> "object", conversation |-> reconsidered,
          recentConversation |->
            Arr(<<asked, echoed, pondered, reconsidered>>)] }

\* the bodies posted at clock reading n: an event as it is, an event in
\* the hook's wrapper, or JSON that is no event
ViewPayloads(n) ==
    LET first == PromptEvent(CommonPrefix \o "first", SessionA, n)
        bash == ToolEvent("Bash", [t |-> "object", command |-> Str("ls")],
                          "abc123", n)
        grep == ToolEvent("Grep", [t |-> "object", pattern |-> Str("TODO")],
                          SessionB, n)
        glob == ToolEvent("Glob", EmptyObject, SessionB, n)
    IN (ViewEvents(n) \ {glob})
         \cup { Wrap(E, HookContext) :
                  E \in ViewEvents(n) \ {first, bash, grep} }
         \cup { Wrap(first, ctx) : ctx \in TranscriptContexts }
         \cup { Null }

ViewPost ==
    /\ Len(inserted) < MaxView
    /\ \E payload \in ViewPayloads(Len(inserted) + 1) :
          Handle(PostRequest(Str(API_KEY), JsonBody(payload)), 0)

\* the single-page client served by server.ts polls the list
ViewFetch ==
    /\ server = "server.ts"
    /\ SpaFetchEvents

PagePaths == {"/", "/chat", "/file-changes", "/context-usage"}

\* what the page at `pathname` shows of the store at clock reading `now`
PageView(pathname, store, now) ==
    CASE pathname = "/" ->
           IF generateHtmlPage(store).threw THEN [kind |-> "error"]
           ELSE [kind |-> "events", stats |-> HeaderStats(store)]
      [] pathname = "/chat" ->
           IF generateChatPage(store).threw THEN [kind |-> "error"]
           ELSE [kind |-> "chat", messages |-> ChatPageMessages(store, now)]
      [] pathname = "/file-changes" ->
           IF generateFileChangesPage(store).threw THEN [kind |-> "error"]
           ELSE [kind |-> "file-changes", fileOps |-> FileChangesOps(store, now)]
      [] pathname = "/context-usage" ->
           IF generateContextUsagePage(store).threw THEN [kind |-> "error"]
           ELSE [kind |-> "context-usage", usageStats |-> UsageStats(store)]

\* a page of the server-rendered variant is requested
ViewPage ==
    /\ server = "ui.ts"
    /\ \E pathname \in PagePaths : \E now \in 1..MaxClock :
          /\ now > 1 => pathname \in {"/chat", "/file-changes"}
          /\ ServerStep(GetRequest(pathname), 0)
          /\ view' = PageView(pathname, events, now)
          /\ UNCHANGED <<hookEvent, context, posted, uiEvents, hook, pending>>

InitViews == \E program \in Programs : Fresh(program)

NextViews == ViewPost \/ ViewFetch \/ ViewPage

SpecViews == InitViews /\ [][NextViews]_vars

(***************************************************************************)
(* hook.ts: one run of the hook process.  The process reads its standard   *)
(* input, enriches the event from the transcript, posts the payload and    *)
(* reports to its host.  What it reads and what the backend does are the   *)
(* environment's choice; getSessionName, getLastTranscriptLine and         *)
(* parseTranscript belong to the SDK, and each of them may throw.          *)
(***************************************************************************)
TIMEOUT_MS == 5000

\* allLines.slice(-20)
RECENT_LINES == 20

\* the transcript file: it cannot be read, its last line cannot be taken,
\* one of its lines cannot be parsed, or it parses (a few lines, or more
\* lines than are kept)
TranscriptFiles == {"unreadable", "no last line", "bad line", "short", "long"}

\* the lines of the transcript file
TranscriptLines(file) ==
    IF file = "long"
    THEN [i \in 1..(RECENT_LINES + 1) |->
            UserLine("line " \o ToString(i), EmptyObject)]
    ELSE <<UserLine("hello", Opt("timestamp", Str(ToISOString(0)))),
           AssistantLine(<<TextBlock("hi")>>, EmptyObject)>>

\* getLastTranscriptLine(transcriptContent)
getLastTranscriptLine(lines) == lines[Len(lines)]

\* parseTranscript(transcriptContent)
parseTranscript(lines) ==
    [i \in 1..Len(lines) |-> [t |-> "object", content |-> lines[i]]]

\* array.slice(-n)
Slice(s, n) == SubSeq(s, IF Len(s) > n THEN Len(s) - n + 1 ELSE 1, Len(s))

\* allLines.slice(-20).map(line => line.content).filter(Boolean)
RecentOf(allLines) ==
    LET recent == Slice(allLines, RECENT_LINES)
    IN SelectSeq([i \in 1..Len(recent) |-> Get(recent[i], "content")], Truthy)

\* the events the host writes to the hook's standard input
HookRawEvents ==
    { ("transcript_path" :> Str("/t.jsonl")) @@ PromptEvent("hello", "abc123", 1),
      PromptEvent("hello", "abc123", 1),
      [t |-> "object", hook_event_name |-> Str("Stop"),
       transcript_path |-> Str("/t.jsonl")] }

\* the text on standard input
HookInputs ==
    {GarbageBody, EmptyBody, JsonBody(Null)}
      \cup {JsonBody(E) : E \in HookRawEvents}

\* the process before main() runs
HookProcess(stdin, file, names) ==
    [pc |-> "start",
     stdin |-> stdin,
     transcriptFile |-> file,
     sessionNames |-> names,
     rawEvent |-> Undefined,
     conversation |-> Null,
     recentConversation |-> Arr(<<>>),
     timer |-> "unset",
     posts |-> <<>>,
     response |-> [status |-> 0, serverVersion |-> Null, eventsCount |-> Null],
     stdout |-> <<>>,
     stderr |-> <<>>,
     exitCode |-> <<>>]

\* JSON.stringify(output) of a HookOutput
OutputLine(message) == [json |-> [continue |-> TRUE, message |-> message]]

\* a line of diagnostics
LogLine(text) == [text |-> text]

\* the end of main's try block: console.log(output); process.exit(0)
Succeed(h, message) ==
    [h EXCEPT !.pc = "exited",
              !.stdout = Append(@, OutputLine(message)),
              !.exitCode = <<0>>]

\* variant: the catch block exits with status 1
FailExitOne(h, errorMessage) ==
    [h EXCEPT !.pc = "exited",
              !.stderr = Append(@, OutputLine("Backend hook error: "
                                                \o errorMessage)),
              !.exitCode = <<1>>]

\* main's catch block: console.error(output); process.exit(0)
Fail(h, errorMessage) ==
    [h EXCEPT !.pc = "exited",
              !.stderr = Append(@, OutputLine("Backend hook error: "
                                                \o errorMessage)),
              !.exitCode = <<0>>]

\* the payload main builds at clock reading `now`
HookPayload(rawEvent, sessionName, conversation, recentConversation, now) ==
    [t |-> "object",
     event |-> ("session_name" :> sessionName) @@ rawEvent,
     conversation |-> conversation,
     recentConversation |-> recentConversation,
     timestamp |-> Str(ToISOString(now))]

\* every variable but hook
serverVars == <<server, events, req, resp, console, inserted,
                hookEvent, context, posted, uiEvents, view, pending>>

\* await readStdin(); JSON.parse(input); the reads of rawEvent
HookReadStdin ==
    /\ hook.pc = "start"
    /\ hook' = IF hook.stdin.syntax # "json"
               THEN Fail(hook, "JSON Parse error")
               ELSE IF ~Readable(hook.stdin.value)
               THEN Fail(hook, "null is not an object")
               ELSE [hook EXCEPT !.pc = "parsed",
                                 !.rawEvent = hook.stdin.value]
    /\ UNCHANGED serverVars

\* the enrichment from the transcript, with its own try and catch
HookReadTranscript ==
    /\ hook.pc = "parsed"
    /\ LET lines == TranscriptLines(hook.transcriptFile)
           failed == Append(hook.stderr,
                            LogLine("[Hook] Failed to read transcript:"))
       IN hook' =
            IF ~Truthy(Get(hook.rawEvent, "transcript_path"))
            THEN [hook EXCEPT !.pc = "enriched"]
            ELSE IF hook.transcriptFile \in {"unreadable", "no last line"}
            THEN [hook EXCEPT !.pc = "enriched", !.stderr = failed]
            ELSE IF hook.transcriptFile = "bad line"
            THEN [hook EXCEPT !.pc = "enriched", !.stderr = failed,
                              !.conversation = getLastTranscriptLine(lines)]
            ELSE [hook EXCEPT !.pc = "enriched",
                              !.conversation = getLastTranscriptLine(lines),
                              !.recentConversation =
                                  Arr(RecentOf(parseTranscript(lines)))]
    /\ UNCHANGED serverVars

\* the payload is built and postToBackend starts the request: the timer
\* is set and fetch is called
HookSend ==
    /\ hook.pc = "enriched"
    /\ \E now \in 1..MaxClock :
          LET sessionId == Get(hook.rawEvent, "session_id") IN
          hook' =
            IF Truthy(sessionId) /\ hook.sessionNames = "throws"
            THEN Fail(hook, "getSessionName failed")
            ELSE [hook EXCEPT
                    !.pc = "fetching",
                    !.timer = "armed",
                    !.posts = Append(@,
                        HookPayload(hook.rawEvent,
                                    IF Truthy(sessionId)
                                    THEN Str("mutual-lion") ELSE Str("unknown"),
                                    hook.conversation,
                                    hook.recentConversation, now))]
    /\ UNCHANGED serverVars

\* what the backend can send as the body of its answer
ReplyBodies ==
    { JsonBody([t |-> "object", message |-> Str("Event received")]),
      JsonBody(EmptyObject),
      JsonBody(Null),
      GarbageBody }

\* the text of a body, as response.text() returns it
BodyText(body) ==
    IF body.syntax # "json" THEN "<html>"
    ELSE IF body.value = Null THEN "null"
    ELSE IF Truthy(Get(body.value, "message"))
    THEN "{\"message\":\"" \o Get(body.value, "message").s \o "\"}"
    ELSE "{}"

\* fetch rejects: the backend cannot be reached
HookFetchFails ==
    /\ hook.pc = "fetching"
    /\ hook' = Fail([hook EXCEPT !.timer = "cleared"], "Unable to connect")
    /\ UNCHANGED serverVars

\* the response headers arrive: fetch resolves and the timer is cleared
HookHeadersArrive ==
    /\ hook.pc = "fetching"
    /\ \E status \in {200, 400, 401, 500} :
       \E headers \in {[serverVersion |-> Null, eventsCount |-> Null],
                       [serverVersion |-> Str("1.0.0"),
                        eventsCount |-> Str("1")]} :
          hook' = [hook EXCEPT
                     !.pc = "reading",
                     !.timer = "cleared",
                     !.response = [status |-> status,
                                   serverVersion |-> headers.serverVersion,
                                   eventsCount |-> headers.eventsCount]]
    /\ UNCHANGED serverVars

\* variant: a request that timed out is sent again
HookTimerRetries ==
    /\ hook.timer = "armed"
    /\ hook' = [hook EXCEPT !.posts = Append(@, @[Len(@)])]
    /\ UNCHANGED serverVars

\* the timer set by postToBackend fires: controller.abort() rejects the
\* pending request with an AbortError
HookTimerFires ==
    /\ hook.timer = "armed"
    /\ hook' = Fail([hook EXCEPT !.timer = "fired"],
                    "Backend request timed out after "
                      \o ToString(TIMEOUT_MS) \o "ms")
    /\ UNCHANGED serverVars

\* the lines postToBackend logs for the custom response headers
HeaderLines(response) ==
    (IF Truthy(response.serverVersion)
     THEN <<LogLine("[Backend] Server version: " \o response.serverVersion.s)>>
     ELSE <<>>)
    \o (IF Truthy(response.eventsCount)
        THEN <<LogLine("[Backend] Total events stored: "
                         \o response.eventsCount.s)>>
        ELSE <<>>)

\* the body of the response arrives: response.text() or response.json()
\* resolves and main goes on to its end
HookBodyArrives ==
    /\ hook.pc = "reading"
    /\ \E body \in ReplyBodies :
          hook' =
            IF hook.response.status \notin 200..299
            THEN Fail(hook, "Backend returned "
                              \o ToString(hook.response.status) \o ": "
                              \o BodyText(body))
            ELSE IF body.syntax # "json"
            THEN Fail(hook, "JSON Parse error")
            ELSE LET logged == [hook EXCEPT
                                  !.stderr = @ \o HeaderLines(hook.response)]
                 IN IF ~Readable(body.value)
                    THEN Fail(logged, "null is not an object")
                    ELSE Succeed(logged,
                                 Or(Get(body.value, "message"),
                                    Str("Posted event to backend")).s)
    /\ UNCHANGED serverVars

\* the connection breaks while the body is read
HookBodyFails ==
    /\ hook.pc = "reading"
    /\ hook' = Fail(hook, "The socket connection was closed")
    /\ UNCHANGED serverVars

InitHook ==
    /\ server = "server.ts"
    /\ events = <<>>
    /\ req = NoRequest
    /\ resp = NoResponse
    /\ console = NoLine
    /\ inserted = <<>>
    /\ hookEvent = Undefined
    /\ context = NoContext
    /\ posted = {}
    /\ uiEvents = <<>>
    /\ view = NoView
    /\ pending = <<>>
    /\ \E stdin \in HookInputs : \E file \in TranscriptFiles :
         \E names \in {"found", "throws"} :
           hook = HookProcess(stdin, file, names)

\* the steps of the process itself
HookRuns == HookReadStdin \/ HookReadTranscript \/ HookSend

NextHook ==
    \/ HookRuns
    \/ HookFetchFails
    \/ HookHeadersArrive
    \/ HookTimerFires
    \/ HookBodyArrives
    \/ HookBodyFails

SpecHook == InitHook /\ [][NextHook]_vars

\* the runtime runs the process's own steps and fires a timer that stays
\* set; nothing makes the backend answer
SpecHookLive ==
    /\ SpecHook
    /\ WF_vars(HookRuns)
    /\ WF_vars(HookTimerFires)

(***************************************************************************)
(* Properties                                                              *)
(***************************************************************************)
IsPostEvents(r) == r.method = "POST" /\ r.pathname = "/events"

Min(a, b) == IF a < b THEN a ELSE b

\* the payloads of the insertions that were answered 200, oldest first
Accepted == SelectSeq(inserted, LAMBDA e : e.status = 200)

\* C1: after any sequence of POST /events requests, accepted or rejected,
\* the store holds at most MAX_EVENTS records.
C1_LengthAtMostMax == Len(events) <= MAX_EVENTS

\* the store is full and one more insertion has been made
C1_Witness ==
    /\ Len(inserted) = MAX_EVENTS + 1
    /\ Len(events) = MAX_EVENTS
    /\ IsPostEvents(req)

\* C2: after k events have been accepted (answered 200), the store holds
\* exactly the min(k, MAX_EVENTS) most recently accepted events, most
\* recent first.
C2_StoreIsRecentAccepted ==
    /\ Len(events) = Min(Len(Accepted), MAX_EVENTS)
    /\ \A i \in 1..Len(events) :
           events[i] = Accepted[Len(Accepted) + 1 - i].payload

\* C3: a POST /events whose key is absent or wrong is answered 401 and
\* leaves the store as it was, whatever the body is.
C3_BadKeyRejected ==
    [][(IsPostEvents(req') /\ req'.apiKey # Str(API_KEY))
         => (resp'.status = 401 /\ events' = events)]_vars

\* a well-formed event sent without a key to a store that holds records
C3_Witness ==
    /\ IsPostEvents(req)
    /\ req.apiKey = Null
    /\ req.body.syntax = "json"
    /\ resp.status = 401
    /\ Len(events) > 0

\* C4: a POST /events with the right key whose body is not JSON is answered
\* 400 and leaves the store as it was.
C4_MalformedRejected ==
    [][(IsPostEvents(req') /\ req'.apiKey = Str(API_KEY)
          /\ req'.body.syntax # "json")
         => (resp'.status = 400 /\ events' = events)]_vars

C4_Witness ==
    /\ IsPostEvents(req)
    /\ req.apiKey = Str(API_KEY)
    /\ req.body.syntax = "garbage"
    /\ resp.status = 400
    /\ Len(events) > 0

\* C5: for every POST /events the store is changed if and only if the
\* response is the 200 confirmation.
C5_ChangedIffSuccess ==
    [][IsPostEvents(req') => ((events' # events) <=> (resp'.status = 200))]_vars

\* C6: a successful POST /events is answered 200 with total_events and the
\* X-Events-Count header both equal to the store's length after the
\* insertion and eviction, a number from 1 to MAX_EVENTS.
C6_CountReported ==
    (IsPostEvents(req) /\ resp.status = 200)
      => /\ resp.body.success = TRUE
         /\ resp.body.total_events = Len(events)
         /\ resp.headers.XEventsCount = ToString(Len(events))
         /\ resp.body.total_events \in 1..MAX_EVENTS

\* a success answered after the insertion that evicts the first record
C6_Witness ==
    /\ IsPostEvents(req)
    /\ resp.status = 200
    /\ Len(inserted) = MAX_EVENTS + 1
    /\ resp.body.total_events = MAX_EVENTS

\* C7: server.ts answers GET /health with {status, events_count,
\* uptime_seconds}, events_count being the store's length.
C7_HealthAnswered ==
    (server = "server.ts" /\ req = GetRequest("/health"))
      => /\ resp.status = 200
         /\ DOMAIN resp.body = {"status", "events_count", "uptime_seconds"}
         /\ resp.body.events_count = Len(events)

\* C8: GET /api/events returns every record of the store in store order,
\* and each stored record is the payload as it was inserted.
C8_ApiEventsReturnsStore ==
    /\ \A i \in 1..Len(events) :
           events[i] = inserted[Len(inserted) + 1 - i].payload
    /\ (req = GetRequest("/api/events"))
         => (resp.status = 200 /\ resp.body.events = events)

\* the list is read after the first record has been evicted
C8_Witness ==
    /\ req = GetRequest("/api/events")
    /\ Len(inserted) > MAX_EVENTS
    /\ Len(resp.body.events) = MAX_EVENTS

\* C9: the store is mutated only by an accepted POST /events: a step that
\* changes the store is a POST /events answered 200, so no GET request and
\* no projection changes it.
C9_OnlyAcceptedPostMutates ==
    [][(events' # events) => (IsPostEvents(req') /\ resp'.status = 200)]_vars

\* the part of C9 about reads: every GET request, and with it every page
\* the server renders, leaves the store's contents and order unchanged
GetLeavesStore ==
    [][req'.method = "GET" => events' = events]_vars

\* the fields the client displays
Displayed(e) ==
    [type |-> e.type, sessionId |-> e.sessionId, sessionName |-> e.sessionName,
     timestamp |-> e.timestamp, details |-> e.details]

Mirrors ==
    /\ req = GetRequest("/api/events")
    /\ Len(uiEvents) = Len(events)
    /\ \A i \in 1..Len(events) : uiEvents[i].raw = events[i]

\* the last step rendered the chat projection of the store
ChatShown ==
    \/ view.kind = "spa" /\ Mirrors
    \/ view.kind = "chat" /\ req = GetRequest("/chat")

ShownMessages ==
    IF view.kind = "spa" THEN view.chatMessages ELSE view.messages

SamePrefix(a, b) == Substring(a, SPA_HASH_PREFIX) = Substring(b, SPA_HASH_PREFIX)

\* the stored record is a wrapped prompt-submit event whose prompt has the
\* prefix of `content`
PromptLike(payload, content) ==
    /\ Readable(payload)
    /\ Get(payload, "event") # Undefined
    /\ Readable(Get(payload, "event"))
    /\ Get(Get(payload, "event"), "hook_event_name") = Str("UserPromptSubmit")
    /\ Get(Get(payload, "event"), "prompt").t = "string"
    /\ SamePrefix(Get(Get(payload, "event"), "prompt").s, content)

\* C11: in the chat projection (the client's chatMessages and the page of
\* generateChatPage) two messages with the same role and the same first 50
\* characters are shown once, and the one kept is the chronologically
\* first: a prompt shown is the one of the oldest stored record with that
\* prefix, with that record's timestamp.
C11_DuplicateShownOnceOldestKept ==
    ChatShown =>
      /\ \A i, j \in 1..Len(ShownMessages) :
             (/\ i # j
              /\ ShownMessages[i].role = ShownMessages[j].role)
               => ~SamePrefix(ShownMessages[i].content,
                              ShownMessages[j].content)
      /\ \A i \in 1..Len(ShownMessages) :
             LET m == ShownMessages[i]
                 like == {k \in 1..Len(events) : PromptLike(events[k], m.content)}
             IN (m.role = "user" /\ like # {})
                  => LET oldest == events[CHOOSE k \in like :
                                            \A other \in like : other <= k]
                     IN /\ m.content = Get(oldest.event, "prompt").s
                        /\ m.timestamp = Get(oldest, "timestamp")

\* the part of C11 that holds of the client alone
C11_ClientKeepsOldest == (view.kind = "spa") => C11_DuplicateShownOnceOldestKept

\* the part of C11 about which copy is kept, on the page alone: the prompts
\* stored are identical
C11_PageKeepsOldest ==
    (view.kind = "chat" /\ req = GetRequest("/chat")
       /\ \A k \in 1..Len(events) :
              PromptLike(events[k], "hello") \/ events[k] = Null)
      => C11_DuplicateShownOnceOldestKept

\* C12 as claimed: the chat projection returns its messages oldest first:
\* of any two messages in the result, the one that comes earlier does not
\* have a later time than the one that follows.
C12_OldestFirst ==
    ChatShown =>
      \A i, j \in 1..Len(ShownMessages) :
          i < j => ~SortsAfter(ShownMessages[i], ShownMessages[j])

\* the messages the client takes from one record on its own
FromRecord(e) == SpaRecord(NoMessages, e).messages

\* the place in the client's list of the oldest record that yields m
Origin(m) ==
    CHOOSE k \in 1..Len(uiEvents) :
        /\ \E n \in 1..Len(FromRecord(uiEvents[k])) :
               FromRecord(uiEvents[k])[n] = m
        /\ \A other \in (k + 1)..Len(uiEvents) :
               \A n \in 1..Len(FromRecord(uiEvents[other])) :
                   FromRecord(uiEvents[other])[n] # m

\* C12 as amended: the page of generateChatPage lists its messages by
\* timestamp, oldest first; the client's chatMessages lists them newest
\* first, a message taken from a newer record coming before one taken
\* from an older record.
C12_PageOldestClientNewest ==
    /\ (view.kind = "chat" /\ req = GetRequest("/chat"))
         => \A i, j \in 1..Len(view.messages) :
                i < j => ~SortsAfter(view.messages[i], view.messages[j])
    /\ (view.kind = "spa" /\ Mirrors)
         => \A i, j \in 1..Len(view.chatMessages) :
                i < j => Origin(view.chatMessages[i])
                           <= Origin(view.chatMessages[j])

\* the client shows the prompts of two records, the newer one first
C12_Witness ==
    /\ view.kind = "spa"
    /\ Mirrors
    /\ Len(view.chatMessages) = 2
    /\ view.chatMessages[1].content = "hello"
    /\ view.chatMessages[1].timestamp = Str(ToISOString(2))
    /\ view.chatMessages[2].content = CommonPrefix \o "second"
    /\ view.chatMessages[2].timestamp = Str(ToISOString(1))

\* the last step rendered the file-operation projection of the store
FilesShown ==
    \/ view.kind = "spa" /\ Mirrors
    \/ view.kind = "file-changes" /\ req = GetRequest("/file-changes")

\* the stored records that are tool invocations of a listed tool, in store
\* order
ListedToolRecords ==
    SelectSeq(events,
              LAMBDA p : /\ Readable(p)
                         /\ Readable(EventOf(p))
                         /\ Get(EventOf(p), "hook_event_name")
                              = Str("PostToolUse")
                         /\ Get(EventOf(p), "tool_name")
                              \in {Str("Read"), Str("Write"), Str("Edit"),
                                   Str("Glob"), Str("Grep")})

\* the tool and time of the entries shown, in store order
ShownFileEntries ==
    IF view.kind = "spa"
    THEN [i \in 1..Len(view.fileOperations) |->
            [tool |-> view.fileOperations[i].type,
             timestamp |-> view.fileOperations[i].timestamp]]
    ELSE Reverse([i \in 1..Len(view.fileOps) |->
                    [tool |-> view.fileOps[i].toolName,
                     timestamp |-> view.fileOps[i].timestamp]])

\* C13: the file-operation projection holds exactly one entry for each
\* stored PostToolUse record whose tool is Read, Write, Edit, Glob or Grep,
\* and none for any other record, for flat and wrapped payloads alike.
C13_OneEntryPerListedTool ==
    FilesShown =>
      /\ Len(ShownFileEntries) = Len(ListedToolRecords)
      /\ \A i \in 1..Len(ListedToolRecords) :
             /\ ShownFileEntries[i].tool
                  = Get(EventOf(ListedToolRecords[i]), "tool_name")
             /\ ShownFileEntries[i].timestamp
                  = Get(EventOf(ListedToolRecords[i]), "timestamp")

\* the client shows one entry, for the wrapped Write, of a store that also
\* holds a flat Bash invocation
C13_Witness ==
    /\ view.kind = "spa"
    /\ Mirrors
    /\ Len(events) = 2
    /\ Get(events[1], "tool_name") = Str("Bash")
    /\ Get(OptGet(events[2], "event"), "tool_name") = Str("Write")
    /\ Len(view.fileOperations) = 1
    /\ view.fileOperations[1].type = Str("Write")

\* the first of a and b that is present
FirstPresent(a, b) == IF a # Undefined THEN a ELSE b

\* the path the claimed chain picks for a stored record
ChainPath(payload) ==
    LET event == EventOf(payload)
        toolInput == Get(event, "tool_input")
    IN FirstPresent(OptGet(toolInput, "file_path"),
         FirstPresent(OptGet(toolInput, "path"),
           FirstPresent(OptGet(toolInput, "pattern"), Get(event, "cwd"))))

\* the paths of the entries shown, in store order
ShownFilePaths ==
    IF view.kind = "spa"
    THEN [i \in 1..Len(view.fileOperations) |-> view.fileOperations[i].path]
    ELSE Reverse([i \in 1..Len(view.fileOps) |-> view.fileOps[i].filePath])

\* C14: the path shown for a file operation is the first present of
\* tool_input.file_path, tool_input.path, tool_input.pattern and the
\* event's cwd.
C14_PathByFallbackChain ==
    FilesShown =>
      \A i \in 1..Len(ListedToolRecords) :
          ShownFilePaths[i] = ChainPath(ListedToolRecords[i])

\* the chain on the page alone, which ends in 'N/A' and never reaches cwd
C14_PageFollowsChain == (view.kind = "file-changes") => C14_PathByFallbackChain

\* the last step rendered aggregate counts of the store
StatsShown ==
    \/ view.kind = "spa" /\ Mirrors
    \/ view.kind = "events" /\ req = GetRequest("/")
    \/ view.kind = "context-usage" /\ req = GetRequest("/context-usage")

\* the session count shown
ShownSessions ==
    IF view.kind = "context-usage" THEN view.usageStats.sessionsTracked
    ELSE view.stats.sessions

\* the full session identifiers of the stored records
StoredSessionIds ==
    {Get(EventOf(events[i]), "session_id") :
       i \in {j \in 1..Len(events) :
                /\ Readable(events[j])
                /\ Readable(EventOf(events[j]))
                /\ Get(EventOf(events[j]), "session_id").t = "string"}}

\* C15: the session count of the aggregate projection is the number of
\* distinct full session identifiers among the stored records, flat or
\* wrapped, of any length, sharing a prefix or not.
C15_SessionsAreDistinctIds ==
    StatsShown => ShownSessions = Cardinality(StoredSessionIds)

\* the count on the context-usage page alone, which adds the full
\* identifier of the event
C15_UsagePageCountsFullIds ==
    (view.kind = "context-usage") => C15_SessionsAreDistinctIds

\* the stored record is a tool invocation, of one of `tools` if any are
\* named
IsInvocation(payload, tools) ==
    /\ Readable(payload)
    /\ Readable(EventOf(payload))
    /\ Get(EventOf(payload), "hook_event_name") = Str("PostToolUse")
    /\ tools # {} => Get(EventOf(payload), "tool_name") \in tools

StoredCount(tools) ==
    Cardinality({i \in 1..Len(events) : IsInvocation(events[i], tools)})

\* the counts shown by the client's stats or by the context-usage page
ShownCounts ==
    IF view.kind = "spa"
    THEN [totalEvents |-> view.stats.totalEvents,
          toolUses |-> view.stats.toolUses,
          modifying |-> view.stats.filesModified,
          sessions |-> view.stats.sessions]
    ELSE [totalEvents |-> view.usageStats.totalEvents,
          toolUses |-> view.usageStats.toolUses,
          modifying |-> view.usageStats.writes + view.usageStats.edits,
          sessions |-> view.usageStats.sessionsTracked]

\* the store holds one record: an accepted prompt-submit event of session
\* abc123 posted to the empty store
OnePromptAccepted ==
    /\ Len(inserted) = 1
    /\ inserted[1].status = 200
    /\ Len(events) = 1
    /\ Get(EventOf(events[1]), "hook_event_name") = Str("UserPromptSubmit")
    /\ Get(EventOf(events[1]), "session_id") = Str("abc123")

\* C16: the counts of the aggregate projection match the store:
\* totalEvents is the store's length, the tool-invocation count is the
\* number of PostToolUse records, the modifying count the number of
\* PostToolUse records of Write or Edit; after one accepted prompt-submit
\* event for session abc123 on an empty store totalEvents = 1 and
\* sessions = 1.
C16_CountsMatchStore ==
    (StatsShown /\ view.kind # "events") =>
      /\ ShownCounts.totalEvents = Len(events)
      /\ ShownCounts.toolUses = StoredCount({})
      /\ ShownCounts.modifying = StoredCount({Str("Write"), Str("Edit")})
      /\ OnePromptAccepted
           => (ShownCounts.totalEvents = 1 /\ ShownCounts.sessions = 1)

\* the client counts a wrapped Write and a flat Bash invocation
C16_Witness ==
    /\ view.kind = "spa"
    /\ Mirrors
    /\ Len(events) = 2
    /\ Get(events[1], "tool_name") = Str("Bash")
    /\ Get(OptGet(events[2], "event"), "tool_name") = Str("Write")
    /\ view.stats.totalEvents = 2
    /\ view.stats.toolUses = 2
    /\ view.stats.filesModified = 1

\* the scenario of C16 on the context-usage page
C16_ScenarioReached ==
    /\ view.kind = "context-usage"
    /\ req = GetRequest("/context-usage")
    /\ OnePromptAccepted

\* the JSON results the process has written, on either stream
HookResults ==
    SelectSeq(hook.stdout \o hook.stderr, LAMBDA line : "json" \in DOMAIN line)

\* C17: every run of hook.ts ends with exit code 0 and a result whose
\* continue field is true, whatever failed on the way: unparseable stdin,
\* the session-name lookup, the transcript, an unreachable backend, a 401,
\* 400 or 5xx answer, or the timeout.
C17_ExitsZeroContinueTrue ==
    (hook.pc = "exited") =>
      /\ hook.exitCode = <<0>>
      /\ Len(HookResults) = 1
      /\ HookResults[1].json.continue = TRUE

\* the run ended by the timeout
C17_Witness ==
    /\ hook.pc = "exited"
    /\ hook.timer = "fired"
    /\ Len(hook.posts) = 1
    /\ hook.exitCode = <<0>>

\* each failure the claim lists ends a run
C17_FailuresReached ==
    /\ hook.pc = "exited"
    /\ hook.response.status = 401
    /\ hook.transcriptFile = "unreadable"
    /\ Len(hook.stderr) = 2

\* C18: on every path, success or failure, hook.ts writes its JSON result
\* {continue, message} to standard output before it exits.
C18_ResultOnStdout ==
    (hook.pc = "exited") =>
      /\ Len(hook.stdout) = 1
      /\ "json" \in DOMAIN hook.stdout[1]
      /\ hook.stdout[1].json.continue = TRUE

\* the part of C18 that holds: a run that reports success writes to
\* standard output
C18_SuccessOnStdout ==
    (hook.pc = "exited" /\ hook.response.status = 200 /\ hook.stdout # <<>>)
      => (hook.stdout = <<HookResults[1]>>)

\* C19: once the POST has been started the timeout bounds it: whatever the
\* backend does, the hook eventually completes.
C19_PostIsBounded ==
    (hook.pc \in {"fetching", "reading"}) ~> (hook.pc = "exited")

\* the part of C19 that holds: a request that has not been answered at all
\* is ended by the timer
C19_UnansweredIsBounded ==
    (hook.pc = "fetching") ~> (hook.pc \in {"reading", "exited"})

\* the transcript was to be read and the enrichment failed
TranscriptFailed ==
    /\ \E i \in 1..Len(hook.stderr) :
           hook.stderr[i] = LogLine("[Hook] Failed to read transcript:")

\* C20: a failure to read or parse the transcript does not prevent the
\* forwarding: the hook sends exactly one POST with the event, a null
\* conversation and no recent conversation lines.
C20_TranscriptFailureStillPosts ==
    /\ Len(hook.posts) <= 1
    /\ (TranscriptFailed /\ hook.sessionNames = "found"
          /\ hook.pc \in {"fetching", "reading", "exited"})
         => /\ Len(hook.posts) = 1
            /\ \A f \in DOMAIN hook.rawEvent :
                   hook.posts[1].event[f] = hook.rawEvent[f]
            /\ hook.posts[1].conversation = Null
            /\ hook.posts[1].recentConversation = Arr(<<>>)

\* the part of C20 that holds: the event is posted once, without recent
\* lines
C20_PostedOnceWithoutLines ==
    /\ Len(hook.posts) <= 1
    /\ (TranscriptFailed /\ hook.sessionNames = "found"
          /\ hook.pc \in {"fetching", "reading", "exited"})
         => /\ Len(hook.posts) = 1
            /\ hook.posts[1].recentConversation = Arr(<<>>)


(***************************************************************************)
(* UserPromptSubmit.ts: the hook that injects the session name into the    *)
(* prompt context.  The process reads its standard input, looks the        *)
(* session name up, writes one line and exits.                             *)
(***************************************************************************)
\* ${value} inside a template literal
TemplateString(v) ==
    CASE v.t = "string" -> v.s
      [] v.t = "number" -> ToString(v.n)
      [] v.t = "undefined" -> "undefined"
      [] v.t = "null" -> "null"
      [] OTHER -> "[object Object]"

\* `Current session: ${sessionName} (${input.session_id.substring(0, 8)})`
SessionContext(sessionName, sessionId) ==
    "Current session: " \o TemplateString(sessionName)
      \o " (" \o Substring(sessionId, SESSION_ID_PREFIX) \o ")"

\* JSON.parse(stdinText): the parsed value, or a SyntaxError
JsonParse(text) ==
    IF text.syntax = "json"
    THEN [ok |-> TRUE, value |-> text.value]
    ELSE [ok |-> FALSE, value |-> Undefined]

\* what getSessionName(sessionId) does: it returns a name, returns nothing,
\* or throws
SessionLookups ==
    {[threw |-> FALSE, value |-> Str("brave-elephant")],
     [threw |-> FALSE, value |-> Str("calm-otter")],
     [threw |-> FALSE, value |-> Undefined],
     [threw |-> TRUE, value |-> Undefined]}

\* the events the host writes to the hook's standard input
InjectRawEvents ==
    { sid @@ prompt @@ name @@ EmptyObject :
        sid \in {EmptyObject} \cup
                { ("session_id" :> v) :
                    v \in {Str("7c6aaaf3-4e2b"), Str("abc"), Str(""),
                           Num(7), Null} },
        prompt \in {EmptyObject, ("prompt" :> Str("hello"))},
        name \in {EmptyObject,
                  ("hook_event_name" :> Str("UserPromptSubmit"))} }

\* the text on standard input
InjectInputs ==
    {GarbageBody, EmptyBody, JsonBody(Null), JsonBody(Num(5)),
     JsonBody(Str("hello"))}
      \cup {JsonBody(E) : E \in InjectRawEvents}

\* the process before its first statement runs
InjectProcess(stdin, lookup) ==
    [pc |-> "start",
     stdin |-> stdin,
     sessionNames |-> lookup,
     input |-> Undefined,
     stdout |-> <<>>,
     stderr |-> <<>>,
     exitCode |-> -1]

\* console.log(JSON.stringify({ exitCode: 0, output: { ... } }))
ContextLine(sessionName, sessionId) ==
    [json |->
       [t |-> "object",
        exitCode |-> Num(0),
        output |->
          [t |-> "object",
           hookSpecificOutput |->
             [t |-> "object",
              hookEventName |-> Str("UserPromptSubmit"),
              userPromptContext |->
                Str(SessionContext(sessionName, sessionId))]]]]

\* console.log(JSON.stringify({ exitCode: 0 }))
BareLine == [json |-> [t |-> "object", exitCode |-> Num(0)]]

\* variant: a catch block that exits without writing its line
GiveUpSilently(h, errors) ==
    [h EXCEPT !.pc = "exited", !.stderr = @ \o errors, !.exitCode = 0]

\* a catch block: the bare line on standard output, then process.exit(0)
GiveUp(h, errors) ==
    [h EXCEPT !.pc = "exited",
              !.stdout = Append(@, BareLine),
              !.stderr = @ \o errors,
              !.exitCode = 0]

\* the try block of lines 38-53 runs to its end: input.session_id can be
\* read, getSessionName returns, and input.session_id has a substring method
ContextBuilt(h) ==
    /\ Readable(h.input)
    /\ ~h.sessionNames.threw
    /\ Get(h.input, "session_id").t = "string"

\* const stdinText = await Bun.stdin.text(); input = JSON.parse(stdinText)
InjectReadStdin ==
    /\ hook.pc = "start"
    /\ LET parsed == JsonParse(hook.stdin)
       IN hook' = IF parsed.ok
                  THEN [hook EXCEPT !.pc = "parsed", !.input = parsed.value]
                  ELSE GiveUp(hook, <<>>)
    /\ UNCHANGED serverVars

\* the second try block and its catch
InjectContext ==
    /\ hook.pc = "parsed"
    /\ hook' =
         IF ContextBuilt(hook)
         THEN [hook EXCEPT
                 !.pc = "exited",
                 !.stdout =
                   Append(@, ContextLine(hook.sessionNames.value,
                                         Get(hook.input, "session_id").s)),
                 !.exitCode = 0]
         ELSE GiveUp(hook, <<"[UserPromptSubmit Hook] Error:">>)
    /\ UNCHANGED serverVars

InitInject ==
    /\ server = "server.ts"
    /\ events = <<>>
    /\ req = NoRequest
    /\ resp = NoResponse
    /\ console = NoLine
    /\ inserted = <<>>
    /\ hookEvent = Undefined
    /\ context = NoContext
    /\ posted = {}
    /\ uiEvents = <<>>
    /\ view = NoView
    /\ pending = <<>>
    /\ \E stdin \in InjectInputs : \E lookup \in SessionLookups :
         hook = InjectProcess(stdin, lookup)

NextInject ==
    \/ InjectReadStdin
    \/ InjectContext

SpecInject == InitInject /\ [][NextInject]_vars


(***************************************************************************)
(* Properties of the session-context hook                                  *)
(***************************************************************************)
\* the line the documentation calls correct: the flat object whose
\* hookSpecificOutput carries the context as additionalContext
FlatContextLine(sessionName, sessionId) ==
    [json |->
       [t |-> "object",
        hookSpecificOutput |->
          [t |-> "object",
           hookEventName |-> Str("UserPromptSubmit"),
           additionalContext |->
             Str(SessionContext(sessionName, sessionId))]]]

\* the process has exited after its lookup succeeded
InjectSucceeded == hook.pc = "exited" /\ hook.input # Undefined /\ ContextBuilt(hook)

\* C21: on success the hook writes the flat object
\* {hookSpecificOutput: {hookEventName: "UserPromptSubmit",
\* additionalContext: ...}}: the context is under additionalContext, and
\* hookSpecificOutput is not inside an output wrapper.
C21_FlatAdditionalContext ==
    InjectSucceeded =>
      hook.stdout = <<FlatContextLine(hook.sessionNames.value,
                                      Get(hook.input, "session_id").s)>>

\* every string held anywhere in a JSON value
RECURSIVE StringsIn(_)
StringsIn(v) ==
    CASE v.t = "string" -> {v.s}
      [] v.t = "object" ->
           UNION {StringsIn(v[f]) : f \in DOMAIN v \ {"t"}}
      [] v.t = "array" ->
           UNION {StringsIn(v.items[i]) : i \in 1..Len(v.items)}
      [] OTHER -> {}

\* the line carries a session context
CarriesContext(line) ==
    \E s \in StringsIn(line.json) : StartsWith(s, "Current session: ")

\* C22: the hook never blocks the host: whatever the input (text that does
\* not parse, input without a session id, a lookup that throws, or
\* success) it has written exactly one JSON object to standard output when
\* it exits, it exits with code 0, and only the output of a successful run
\* carries the session context.
C22_OneLineExitZero ==
    /\ Len(hook.stdout) <= 1
    /\ hook.pc # "exited" => hook.stdout = <<>>
    /\ hook.pc = "exited" =>
         /\ Len(hook.stdout) = 1
         /\ hook.stdout[1].json.t = "object"
         /\ hook.exitCode = 0
         /\ CarriesContext(hook.stdout[1]) <=> InjectSucceeded
         /\ InjectSucceeded =>
              SessionContext(hook.sessionNames.value,
                             Get(hook.input, "session_id").s)
                \in StringsIn(hook.stdout[1].json)

\* a run whose lookup threw, and a run whose input had no session id, have
\* exited
C22_Witness ==
    /\ hook.pc = "exited"
    /\ hook.input # Undefined
    /\ Readable(hook.input)
    /\ hook.sessionNames.threw \/ Get(hook.input, "session_id") = Undefined
    /\ hook.stdout = <<BareLine>>


(***************************************************************************)
(* Properties of the stored shapes, of polling and of interleaving         *)
(***************************************************************************)
\* the parsed body names neither an event kind nor a session
LacksEventShape(payload) ==
    /\ Get(EventOf(payload), "hook_event_name") = Undefined
    /\ Get(EventOf(payload), "session_id") = Undefined

\* C23: a POST /events with the right key whose body is valid JSON but has
\* no event shape (no event kind and no session id, such as {}) is answered
\* 400 and is not stored.
C23_ShapelessRejected ==
    [][(IsPostEvents(req') /\ req'.apiKey = Str(API_KEY)
          /\ req'.body.syntax = "json"
          /\ LacksEventShape(req'.body.value))
         => (resp'.status = 400 /\ events' = events)]_vars


\* the body {} has been answered 200 and heads the store
C23_EmptyObjectStored ==
    /\ IsPostEvents(req)
    /\ req.body = JsonBody(EmptyObject)
    /\ resp.status = 200
    /\ Len(events) > 0
    /\ events[1] = EmptyObject


(***************************************************************************)
(* SpecDash: the events page of ui.ts open in a browser.  Its script keeps *)
(* lastEventCount, asks /health every two seconds and calls                *)
(* location.reload() when the count differs.  A poll whose fetch fails     *)
(* changes nothing and is left out.                                        *)
(***************************************************************************)
\* the page the browser holds after GET /: the script's lastEventCount,
\* whether location.reload() has been called, and (history) the number of
\* insertions made before the page was rendered
Loaded(response, insertedBefore) ==
    IF response.status = 200 /\ response.body.page = "events"
    THEN [kind |-> "dashboard",
          lastEventCount |-> response.body.lastEventCount,
          reloading |-> FALSE,
          renderedAt |-> insertedBefore]
    ELSE [kind |-> "error"]

\* if (data.events_count !== lastEventCount) { lastEventCount = ...;
\* location.reload(); }
Polled(page, data) ==
    IF data.events_count # page.lastEventCount
    THEN [page EXCEPT !.lastEventCount = data.events_count,
                      !.reloading = TRUE]
    ELSE page

\* a hook posts the next numbered event
DashPost ==
    /\ server = "ui.ts"
    /\ Len(inserted) < MaxPosts
    /\ Handle(PostRequest(Str(API_KEY),
                          JsonBody(NumberedEvent(Len(inserted) + 1))), 0)

\* a hook posts a body of any shape
PollPost ==
    /\ server = "ui.ts"
    /\ Len(inserted) < MaxStored
    /\ \E value \in {NumberedEvent(Len(inserted) + 1)}
                    \cup VariedValues(Len(inserted) + 1) :
          Handle(PostRequest(Str(API_KEY), JsonBody(value)), 0)

\* a POST /events that the server turns away
PollReject ==
    /\ server = "ui.ts"
    /\ \E r \in {PostRequest(Str("wrong-key"),
                              JsonBody(NumberedEvent(Len(inserted) + 1))),
                  PostRequest(Str(API_KEY), GarbageBody)} :
          Handle(r, 0)

\* the browser opens the events page, or opens it again after an error
DashOpen ==
    /\ server = "ui.ts"
    /\ view.kind \in {"none", "error"}
    /\ ServerStep(GetRequest("/"), 0)
    /\ view' = Loaded(resp', Len(inserted))
    /\ UNCHANGED <<hookEvent, context, posted, uiEvents, hook, pending>>

\* the interval fires: fetch('/health') and the comparison
DashPoll ==
    /\ server = "ui.ts"
    /\ view.kind = "dashboard"
    /\ ~view.reloading
    /\ ServerStep(GetRequest("/health"), 0)
    /\ view' = Polled(view, resp'.body)
    /\ UNCHANGED <<hookEvent, context, posted, uiEvents, hook, pending>>

\* location.reload() takes effect: the page is requested again
DashReload ==
    /\ server = "ui.ts"
    /\ view.kind = "dashboard"
    /\ view.reloading
    /\ ServerStep(GetRequest("/"), 0)
    /\ view' = Loaded(resp', Len(inserted))
    /\ UNCHANGED <<hookEvent, context, posted, uiEvents, hook, pending>>

InitDash == Fresh("ui.ts")

\* the store filled up to and beyond its capacity under an open page
NextDash == DashPost \/ DashOpen \/ DashPoll \/ DashReload

SpecDash == InitDash /\ [][NextDash]_vars

\* a few requests of every kind under an open page
NextPoll == PollPost \/ PollReject \/ DashOpen \/ DashPoll \/ DashReload

SpecPoll == InitDash /\ [][NextPoll]_vars

\* an event has been accepted (answered 200) since the page was rendered
AcceptedSince(page) ==
    \E i \in (page.renderedAt + 1)..Len(inserted) : inserted[i].status = 200

\* the step is a poll of the page open in the browser
IsPoll(page, request) ==
    /\ page.kind = "dashboard"
    /\ ~page.reloading
    /\ request = GetRequest("/health")

\* C24: smart polling reloads only when new events arrived: a /health poll
\* reloads the page only if at least one event was accepted since the page
\* was rendered; a poll that finds no new event never reloads it.
C24_ReloadOnlyOnAcceptedEvent ==
    [][(IsPoll(view, req') /\ view'.reloading) => AcceptedSince(view)]_vars

\* a poll reloads the page only if the store took a record since the page
\* was rendered, whatever the answer to the request that brought it
C24_ReloadOnlyAfterInsertion ==
    [][(IsPoll(view, req') /\ view'.reloading)
         => Len(inserted) > view.renderedAt]_vars

\* a poll has called for a reload after a request answered 400
C24_ReloadedOnRejected ==
    /\ view.kind = "dashboard"
    /\ view.reloading
    /\ req = GetRequest("/health")
    /\ ~AcceptedSince(view)

\* C28: whenever an event is accepted after a page was rendered, that
\* page's next successful /health poll reloads it, in every state of the
\* store, also when the store held MAX_EVENTS records at render time.
C28_AcceptedEventReloads ==
    [][(IsPoll(view, req') /\ AcceptedSince(view)) => view'.reloading]_vars

\* below capacity at render time, the poll after an acceptance reloads
C28_ReloadsBelowCapacity ==
    [][(IsPoll(view, req') /\ AcceptedSince(view)
          /\ view.lastEventCount < MAX_EVENTS)
         => view'.reloading]_vars

\* a page rendered with a full store has polled after an acceptance and
\* stays as it was
C28_FullStoreNotReloaded ==
    /\ view.kind = "dashboard"
    /\ ~view.reloading
    /\ view.lastEventCount = MAX_EVENTS
    /\ req = GetRequest("/health")
    /\ AcceptedSince(view)


(***************************************************************************)
(* SpecConc: several POST /events in flight.  The handler is an async      *)
(* function whose only await is the read of the request body: what comes   *)
(* before it (the key check) runs when the request arrives, what comes     *)
(* after it (parse, insert, evict, log, respond) runs in one turn of the   *)
(* event loop when the body is there, and handlers of other requests run   *)
(* in between.                                                             *)
(***************************************************************************)
\* number of handlers that wait for their body at the same time
MaxPending == 2

\* a handler suspended at await req.json()
Waiting(request) == [request |-> request]

\* variant: the count is read before the handler's own insertion
ResumedCountsFirst(store, waiting) ==
    LET out == PostEvents(store, waiting.request)
    IN IF out.resp.status = 200
       THEN [out EXCEPT !.resp = Response200(Len(store))]
       ELSE out

\* the rest of the handler, run on the store as it is when the body is there
Resumed(store, waiting) == PostEvents(store, waiting.request)

\* s without its i-th element
Without(s, i) == SubSeq(s, 1, i - 1) \o SubSeq(s, i + 1, Len(s))

\* the bodies of the requests that pass the key check: the same event, text
\* that does not parse and, once the store is about to be full, another event
ConcBodies ==
    {JsonBody(NumberedEvent(1)), GarbageBody}
      \cup (IF Len(inserted) >= MAX_EVENTS - 1
            THEN {JsonBody(NumberedEvent(2))} ELSE {})

\* a POST /events with the right key arrives; its handler reaches the await
ConcArrive ==
    /\ Len(pending) < MaxPending
    /\ Len(inserted) < MaxPosts
    /\ \E body \in ConcBodies :
          pending' = Append(pending,
                            Waiting(PostRequest(Str(API_KEY), body)))
    /\ UNCHANGED <<server, events, req, resp, console, inserted,
                   hookEvent, context, posted, uiEvents, view, hook>>

\* the body of one waiting request is there; its handler runs to the end
ConcResume ==
    \E i \in 1..Len(pending) :
      LET out == Resumed(events, pending[i]) IN
      /\ events' = out.events
      /\ resp' = out.resp
      /\ console' = out.console
      /\ req' = pending[i].request
      /\ inserted' = IF out.unshifted = <<>>
                     THEN inserted
                     ELSE Append(inserted, [payload |-> out.unshifted[1],
                                            status |-> out.resp.status,
                                            line |-> out.console])
      /\ pending' = Without(pending, i)
      /\ UNCHANGED <<server, hookEvent, context, posted, uiEvents, view, hook>>

\* a POST /events with a wrong key is answered before any await
ConcReject ==
    /\ server = "server.ts"
    /\ Handle(PostRequest(Str("wrong-key"), JsonBody(NumberedEvent(1))), 0)

\* the single-page client reads the list while handlers wait
ConcRead ==
    /\ server = "server.ts"
    /\ Handle(GetRequest("/api/events"), 0)

InitConc == Fresh("server.ts")

NextConc == ConcArrive \/ ConcResume \/ ConcReject \/ ConcRead

SpecConc == InitConc /\ [][NextConc]_vars

\* C25: with several POST /events in flight, the insertion at the head and
\* the eviction of the tail of each accepted request are one step: no
\* request sees a store longer than MAX_EVENTS records (the list that
\* /api/events returns included), and the total_events a request is answered is the
\* length its own insertion produced, whatever arrived or finished while
\* it waited.
C25_InsertAndEvictAreOneStep ==
    /\ [](Len(events) <= MAX_EVENTS)
    /\ [](req.pathname = "/api/events"
            => Len(resp.body.events) <= MAX_EVENTS)
    /\ [][(IsPostEvents(req') /\ resp'.status = 200
             /\ Len(pending') < Len(pending))
            => /\ events' = KeepMax(<<req'.body.value>> \o events)
               /\ resp'.body.total_events = Len(events')
               /\ resp'.body.total_events = Min(Len(events) + 1, MAX_EVENTS)
               /\ resp'.headers.XEventsCount = ToString(Len(events'))]_vars

\* a request has been inserted into a full store, and answered, while
\* another handler waits for its body
C25_Witness ==
    /\ IsPostEvents(req)
    /\ resp.status = 200
    /\ resp.body.total_events = MAX_EVENTS
    /\ Len(pending) > 0
    /\ Len(events) = MAX_EVENTS
    /\ Len(inserted) > MAX_EVENTS


\* C26: no request deletes: over any sequence of requests the length of
\* the store never decreases, and a record leaves the store only as the
\* tail that an insertion evicts when the store already holds MAX_EVENTS
\* records.
C26_NoDeletion ==
    [][/\ Len(events') >= Len(events)
       /\ events' # events =>
            \/ Tail(events') = events
            \/ /\ Len(events) = MAX_EVENTS
               /\ IsPostEvents(req')
               /\ Tail(events') = SubSeq(events, 1, MAX_EVENTS - 1)]_vars

\* the insertion into a full store has evicted the oldest record, and reads
\* have followed
C26_Witness ==
    /\ Len(inserted) = MAX_EVENTS + 1
    /\ Len(events) = MAX_EVENTS
    /\ events[MAX_EVENTS] = inserted[2].payload
    /\ events[1] = inserted[MAX_EVENTS + 1].payload
    /\ req.method = "GET"


\* C27: forwarding is attempted once and never retried: a run of hook.ts
\* issues at most one POST, whatever becomes of it (200, 401, 400, a
\* transport failure, the timeout), and once the POST is issued nothing is
\* sent again.
C27_AtMostOnePost ==
    /\ [](Len(hook.posts) <= 1)
    /\ [][hook.posts # <<>> => hook'.posts = hook.posts]_vars

\* a run whose POST was answered 401 has ended with that one POST
C27_Witness ==
    /\ hook.pc = "exited"
    /\ hook.timer = "cleared"
    /\ Len(hook.posts) = 1
    /\ hook.response.status = 401
    /\ Len(hook.stdout) = 0

\* runs whose POST could not be sent, and whose POST timed out, have ended
\* with one POST
C27_FailedOnce ==
    /\ hook.pc = "exited"
    /\ Len(hook.posts) = 1
    /\ hook.response.status = 0
    /\ hook.timer \in {"cleared", "fired"}


(***************************************************************************)
(* Properties of the chat projection                                       *)
(***************************************************************************)
\* the stored record, flat or wrapped, is a prompt-submit event with a
\* prompt that is not empty
IsPromptRecord(payload) ==
    /\ Readable(payload)
    /\ Readable(EventOf(payload))
    /\ Get(EventOf(payload), "hook_event_name") = Str("UserPromptSubmit")
    /\ Get(EventOf(payload), "prompt").t = "string"
    /\ Get(EventOf(payload), "prompt").s # ""

\* a user message with the prompt's prefix is shown
PromptIsShown(payload) ==
    \E i \in 1..Len(ShownMessages) :
        /\ ShownMessages[i].role = "user"
        /\ SamePrefix(ShownMessages[i].content,
                      Get(EventOf(payload), "prompt").s)

\* C29: the chat projection shows a user message for every stored
\* prompt-submit record whose prompt is not empty (up to deduplication),
\* whether the record is flat or wrapped, in the client's chatMessages and
\* in the page of generateChatPage alike.
C29_EveryPromptShown ==
    ChatShown =>
      \A k \in 1..Len(events) :
          IsPromptRecord(events[k]) => PromptIsShown(events[k])

\* the page of generateChatPage shows every stored prompt, flat or wrapped
C29_PageShowsEveryPrompt ==
    (view.kind = "chat" /\ req = GetRequest("/chat")) =>
      \A k \in 1..Len(events) :
          IsPromptRecord(events[k]) => PromptIsShown(events[k])

\* the client shows the prompt of every wrapped record
C29_ClientShowsWrappedPrompts ==
    (view.kind = "spa" /\ Mirrors) =>
      \A k \in 1..Len(events) :
          (IsPromptRecord(events[k]) /\ Get(events[k], "event") # Undefined)
            => PromptIsShown(events[k])

\* the client has rendered a store that holds a flat prompt and shows no
\* message
C29_FlatPromptMissing ==
    /\ view.kind = "spa"
    /\ Mirrors
    /\ Len(events) = 1
    /\ IsPromptRecord(events[1])
    /\ Get(events[1], "event") = Undefined
    /\ view.chatMessages = <<>>


\* the sequences of a sequence, one after the other
RECURSIVE Flatten(_)
Flatten(seqs) ==
    IF seqs = <<>> THEN <<>> ELSE Head(seqs) \o Flatten(Tail(seqs))

\* the lines of a record's recentConversation
RecentLines(raw) ==
    IF Truthy(Get(raw, "recentConversation"))
    THEN ItemsOf(Get(raw, "recentConversation")) ELSE <<>>

\* the messages the client takes from its records when nothing has been
\* seen before, in the order it meets them
SpaCandidates ==
    LET cronEvents == Reverse(uiEvents) IN
    Flatten([k \in 1..Len(cronEvents) |->
        LET e == cronEvents[k]
            lines == RecentLines(e.raw)
        IN SpaPrompt(NoMessages, e).messages
             \o Flatten([n \in 1..Len(lines) |->
                           SpaLine(NoMessages, e, lines[n]).messages])])

\* the same for the page of generateChatPage
PageCandidates ==
    Flatten([k \in 1..Len(events) |->
        LET payload == events[k]
            wrapped == Get(payload, "event") # Undefined
            lines == IF wrapped
                     THEN ItemsOf(Get(payload, "recentConversation"))
                     ELSE <<>>
        IN PagePrompt(NoMessages, EventOf(payload), Null).messages
             \o Flatten([n \in 1..Len(lines) |->
                           PageLine(NoMessages, lines[n], Null).messages])])

\* a message without its timestamp
Untimed(m) ==
    [role |-> m.role, content |-> m.content,
     thinking |-> IF "thinking" \in DOMAIN m THEN m.thinking ELSE ""]

\* the role and the first n characters of the content
RoleAndPrefix(m, n) == <<m.role, Substring(m.content, n)>>

\* of the candidates, the first with each role and prefix
FirstOfEach(candidates, n) ==
    { Untimed(candidates[i]) :
        i \in { i \in 1..Len(candidates) :
                  \A j \in 1..(i - 1) :
                      RoleAndPrefix(candidates[j], n)
                        # RoleAndPrefix(candidates[i], n) } }

\* the messages are exactly the first candidate of each role and prefix
MergedByRoleAndPrefix(messages, candidates, n) ==
    /\ \A i, j \in 1..Len(messages) :
           i # j => RoleAndPrefix(messages[i], n) # RoleAndPrefix(messages[j], n)
    /\ {Untimed(messages[i]) : i \in 1..Len(messages)}
         = FirstOfEach(candidates, n)

\* C30: the key of the chat deduplication is the role and the content
\* prefix, nothing else: two messages are merged if and only if they have
\* the same role and the same prefix of their content, so messages of
\* different roles are both shown, and two assistant messages without text
\* whose thinking differs share the key of the empty prefix and only the
\* first is shown.
C30_MergedIffSameRoleAndPrefix ==
    /\ (view.kind = "spa")
         => MergedByRoleAndPrefix(view.chatMessages, SpaCandidates,
                                  SPA_HASH_PREFIX)
    /\ (view.kind = "chat" /\ req = GetRequest("/chat"))
         => MergedByRoleAndPrefix(view.messages, PageCandidates,
                                  PAGE_HASH_PREFIX)

\* the page shows the user's "hello" and the assistant's "hello", and of
\* the two assistant messages without text only the first
C30_Witness ==
    /\ view.kind = "chat"
    /\ req = GetRequest("/chat")
    /\ \E i, j, k \in 1..Len(view.messages) :
           /\ view.messages[i].role = "user"
           /\ view.messages[i].content = "hello"
           /\ view.messages[j].role = "assistant"
           /\ view.messages[j].content = "hello"
           /\ view.messages[k].role = "assistant"
           /\ view.messages[k].content = ""
           /\ view.messages[k].thinking = "one"
    /\ \A k \in 1..Len(view.messages) :
           view.messages[k].role = "assistant"
             => view.messages[k].thinking # "two"

\* the client shows of the two assistant messages without text only the
\* first
C30_ClientWitness ==
    /\ view.kind = "spa"
    /\ \E k \in 1..Len(view.chatMessages) :
           /\ view.chatMessages[k].role = "assistant"
           /\ view.chatMessages[k].content = ""
           /\ view.chatMessages[k].thinking = "one\n"
    /\ \A k \in 1..Len(view.chatMessages) :
           view.chatMessages[k].role = "assistant"
             => view.chatMessages[k].thinking # "two\n"

====
